---- MODULE Spec2Model ----
(***************************************************************************)
(* Model of the trust-and-traffic-control core of iflow2api:               *)
(*   - AuthManager (src/iflow2api/admin/auth.py): administrator records,   *)
(*     password hashes, session tokens, the persisted user store;          *)
(*   - RateLimiter (src/iflow2api/ratelimit.py): per-identity ledgers of   *)
(*     request timestamps in an OrderedDict, three sliding windows, LRU    *)
(*     eviction, one Lock.                                                 *)
(* Spec      : the auth manager, one call at a time (calls do not overlap).*)
(* SpecRL    : the rate limiter serving one identity, one call at a time.  *)
(* SpecLRU   : the rate limiter serving more identities than it tracks.    *)
(* SpecRLConc: the rate limiter's is_allowed run by concurrent threads,    *)
(*             one statement at a time, under the limiter's Lock.          *)
(* SpecMW    : the rate-limit middleware over installed configurations.    *)
(* SpecFault, SpecStore, SpecAuthConc, SpecHash: the auth manager over a   *)
(*             failing store, over a store left by an older version, with  *)
(*             authenticate run by two threads, and its password hash as   *)
(*             a function of strings.                                      *)
(* SpecRefresher, SpecRestart, SpecDiag (src/iflow2api/token_refresher.py):*)
(*             the OAuth token refresher started once, started and stopped *)
(*             repeatedly, and queried by should_refresh_now.              *)
(* SpecLoad, SpecCreateConc, SpecVerifyConc: the auth manager constructed  *)
(*             over any store file, with create_user and with verify_token *)
(*             run by threads one statement at a time.                     *)
(* SpecShared, SpecMalformed: the refresher beside another writer of the   *)
(*             settings file, and over an exchange that may answer without *)
(*             an access token.                                            *)
(***************************************************************************)
EXTENDS Integers, Sequences, FiniteSets, TLC

\* ------------------------------------------------------------------------
\* Bounds of the auth model
\* ------------------------------------------------------------------------
Usernames == {"u1", "u2"}
Passwords == {"p1", "p2"}
\* the values secrets.token_bytes(32) is drawn from
Salts == {"salt_a"}
\* number of tokens authenticate may mint in one behaviour
MaxTokens == 2
\* the auth clock (datetime.now(), in hours) advances in steps of TickHours
TickHours == 24
MaxClock == 48

\* timedelta(hours=24) in AuthManager.authenticate
TOKEN_LIFETIME_HOURS == 24

VARIABLES
    users,          \* AuthManager._users: username -> AdminUser
    active_tokens,  \* AuthManager._active_tokens: token -> TokenData
    jwt_secret,     \* AuthManager._jwt_secret
    disk,           \* contents of ~/.iflow2api/admin_users.json
    secret_file,    \* contents of ~/.iflow2api/.jwt_secret: None or Some(text)
    store_writable, \* whether open(config_path, "w") succeeds
    clock,          \* datetime.now() / time.time() seen by the auth manager
    nrand,          \* how many random parts secrets.token_hex(16) has produced;
                    \* its 128 random bits are modelled as a value never drawn before
    issued,         \* history: token -> TokenData for every token authenticate returned
    revoked,        \* history: tokens hit by logout, change_password or delete_user
    call            \* the last call on the auth manager: operation, username, the
                    \* password of a create_user that went through, the token given
                    \* or returned, and the result

authVars == <<users, active_tokens, jwt_secret, disk, store_writable, clock,
              nrand, issued, revoked, call>>

\* written by the constructor only
fsVars == <<secret_file>>

\* ------------------------------------------------------------------------
\* Values
\* ------------------------------------------------------------------------
\* Optional[datetime]: <<>> is None, <<t>> is the datetime t
None == <<>>
Some(t) == <<t>>

\* the empty function (an empty dict)
EmptyMap == [x \in {} |-> 0]

\* dict without the keys in S
Without(f, S) == [x \in (DOMAIN f) \ S |-> f[x]]

\* hashlib.pbkdf2_hmac and hashlib.sha256 as injective functions of their inputs
PBKDF2(password, salt) == <<"pbkdf2_hmac", password, salt>>
SHA256(text) == <<"sha256", text>>

\* the stored hash string "pbkdf2:{salt_hex}:{hash_hex}" as its three parts,
\* the legacy bare digest as a one-part string
_hash_password(password, salt) ==
    [tag |-> "pbkdf2", salt |-> salt, dk |-> PBKDF2(password, salt)]
LegacyHash(password) ==
    [tag |-> "legacy", salt |-> "", dk |-> SHA256(password)]

\* _verify_password comparing the salt instead of the derived key
_verify_password_salt_only(password, stored_hash) ==
    IF stored_hash.tag = "pbkdf2"
    THEN PBKDF2(password, stored_hash.salt)[3] = stored_hash.dk[3]
    ELSE stored_hash.dk = SHA256(password)

_verify_password(password, stored_hash) ==
    IF stored_hash.tag = "pbkdf2"
    THEN PBKDF2(password, stored_hash.salt) = stored_hash.dk
    ELSE stored_hash.dk = SHA256(password)

\* the token string "{username}:{timestamp}:{random}:{signature}" as its four parts
Signature(username, timestamp, random_part, secret) ==
    SHA256(<<username, timestamp, random_part, secret>>)

\* create_access_token without secrets.token_hex(16): the random part is
\* always the same
create_access_token_no_random(username, secret, timestamp, random_part) ==
    [username |-> username, timestamp |-> timestamp, random_part |-> 0,
     signature |-> Signature(username, timestamp, 0, secret)]

\* create_access_token with `timestamp` for int(time.time() * 1000) and
\* `random_part` for secrets.token_hex(16)
create_access_token(username, secret, timestamp, random_part) ==
    [username |-> username, timestamp |-> timestamp, random_part |-> random_part,
     signature |-> Signature(username, timestamp, random_part, secret)]

\* the module-level verify_token(token, secret): signature check only
SignatureVerifies(token, secret) ==
    token.signature = Signature(token.username, token.timestamp, token.random_part, secret)

NoToken == [username |-> "", timestamp |-> 0, random_part |-> 0,
            signature |-> SHA256(<<"", 0, 0, "">>)]

\* token strings nobody was given, one per user, signed with the process's own
\* secret: random part 0 is never produced by authenticate
ForgedTokens ==
    {create_access_token(u, jwt_secret, 0, 0) : u \in Usernames}

\* tokens a caller may present
TokenInputs == (DOMAIN issued) \cup ForgedTokens

\* datetime.isoformat / datetime.fromisoformat
isoformat(t) == <<"iso", t>>
fromisoformat(s) == s[2]

\* the JSON document _save_users writes for a user map
Serialize(us) ==
    [users |-> [u \in DOMAIN us |->
        [password_hash |-> us[u].password_hash,
         created_at |-> isoformat(us[u].created_at),
         last_login |-> IF us[u].last_login = None THEN None
                        ELSE Some(isoformat(us[u].last_login[1]))]]]

\* the user map _load_users builds from the JSON document
Deserialize(data) ==
    [u \in DOMAIN data.users |->
        [password_hash |-> data.users[u].password_hash,
         created_at |-> fromisoformat(data.users[u].created_at),
         last_login |-> IF data.users[u].last_login = None THEN None
                        ELSE Some(fromisoformat(data.users[u].last_login[1]))]]

\* TokensOf with the revocation filter left out: nothing is selected
TokensOf_nothing(tokens, username) ==
    {t \in DOMAIN tokens : FALSE}

\* the tokens of one user in a token map
TokensOf(tokens, username) ==
    {t \in DOMAIN tokens : tokens[t].username = username}

Call(op, username, password, token, ret) ==
    [op |-> op, username |-> username, password |-> password, token |-> token, ret |-> ret]

\* ------------------------------------------------------------------------
\* AuthManager
\* ------------------------------------------------------------------------
\* user stores the process may find on disk at start: none, or one written by
\* an older version that stored bare SHA-256 digests
InitialStores ==
    { [users |-> EmptyMap],
      [users |-> ("u1" :> [password_hash |-> LegacyHash("p1"),
                           created_at |-> isoformat(0),
                           last_login |-> None])] }

\* the text of a secret file: secrets.token_hex(32) has 64 characters
SecretText(text, len) == [text |-> text, len |-> len]

\* the secret secrets.token_hex(32) produces at construction: 256 random
\* bits, a value found in no file written before
NewSecret == "s1"

\* _load_or_create_jwt_secret: the secret of the file when it exists and has
\* at least 32 characters, else a new one, written to the file
_load_or_create_jwt_secret(file) ==
    IF file # None /\ file[1].len >= 32
    THEN [secret |-> file[1].text, file |-> file]
    ELSE [secret |-> NewSecret, file |-> Some(SecretText(NewSecret, 64))]

\* the migration taking the stored secret over whatever the secret file holds
MigratedSecret_unconditional(data, loaded) ==
    IF "jwt_secret" \in DOMAIN data
    THEN [secret |-> data.jwt_secret,
          file |-> Some(SecretText(data.jwt_secret, 64))]
    ELSE loaded

\* _load_users, the migration of a secret kept in the user store by an older
\* version: taken over when the secret file does not exist at that point
MigratedSecret(data, loaded) ==
    IF "jwt_secret" \in DOMAIN data /\ loaded.file = None
    THEN [secret |-> data.jwt_secret,
          file |-> Some(SecretText(data.jwt_secret, 64))]
    ELSE loaded

\* AuthManager(): the state after the constructor ran over a user store
\* `data` and a secret file `file`
AuthInitFrom(data, file) ==
    /\ disk = data
    /\ users = Deserialize(data)
    /\ active_tokens = EmptyMap
    /\ jwt_secret = MigratedSecret(data, _load_or_create_jwt_secret(file)).secret
    /\ secret_file = MigratedSecret(data, _load_or_create_jwt_secret(file)).file
    /\ store_writable = TRUE
    /\ clock = 0
    /\ nrand = 0
    /\ issued = EmptyMap
    /\ revoked = {}
    /\ call = Call("init", "", "", NoToken, "none")

\* user stores written by the version that kept the signing secret in the
\* user store, and the secret files the constructor may find next to them:
\* none, one holding another secret, one too short to be used
LegacyStores ==
    { [users |-> EmptyMap, jwt_secret |-> "s0"],
      [users |-> ("u1" :> [password_hash |-> LegacyHash("p1"),
                           created_at |-> isoformat(0),
                           last_login |-> None]),
       jwt_secret |-> "s0"] }

SecretFiles == {None, Some(SecretText("s2", 64)), Some(SecretText("s3", 8))}

\* how many records a user store read at construction holds at most
MaxRecords == 2

\* admin_users.json as the constructor finds it: absent, not JSON, or a
\* JSON document whose "users" object holds these records in this order
StoreFile(exists, readable, records) ==
    [exists |-> exists, readable |-> readable, records |-> records]

\* a record of the file: one that _load_users can build an AdminUser from,
\* one without "password_hash" (KeyError), one whose "created_at" is no ISO
\* date (ValueError)
StoreRecord(username, kind) ==
    IF kind = "no_hash"
    THEN [username |-> username, created_at |-> isoformat(0), last_login |-> None]
    ELSE [username |-> username,
          password_hash |-> _hash_password("p1", "salt_a"),
          created_at |-> IF kind = "bad_date" THEN <<"text", "yesterday">>
                         ELSE isoformat(0),
          last_login |-> None]

RecordKinds == {"good", "no_hash", "bad_date"}

\* whether AdminUser(...) can be built from a record: user_data["password_hash"]
\* exists and datetime.fromisoformat accepts user_data["created_at"]
Parses(record) ==
    /\ "password_hash" \in DOMAIN record
    /\ record.created_at[1] = "iso"

StoreFiles ==
    { StoreFile(FALSE, FALSE, <<>>), StoreFile(TRUE, FALSE, <<>>) }
    \cup { StoreFile(TRUE, TRUE, records) :
             records \in { r \in UNION { [1..n -> { StoreRecord(u, k) : u \in Usernames,
                                                                      k \in RecordKinds }]
                                        : n \in 0..MaxRecords } :
                              \A i \in DOMAIN r, j \in DOMAIN r :
                                  r[i].username = r[j].username => i = j } }

\* the for loop of _load_users: the records are assigned to self._users one
\* by one, and the first that raises ends the loop with the earlier ones in
\* place
RECURSIVE LoadRecords(_, _)
LoadRecords(records, loaded) ==
    IF records = <<>> THEN loaded
    ELSE IF ~Parses(Head(records)) THEN loaded
    ELSE LoadRecords(Tail(records),
                     (Head(records).username :>
                         [password_hash |-> Head(records).password_hash,
                          created_at |-> fromisoformat(Head(records).created_at),
                          last_login |-> None]) @@ loaded)

\* _load_users: nothing without a file, nothing when open or json.load
\* raises, else what the loop assigned; the except clause swallows every
\* exception
_load_users(file) ==
    IF ~file.exists \/ ~file.readable THEN EmptyMap
    ELSE LoadRecords(file.records, EmptyMap)

\* has_users()
has_users == Cardinality(DOMAIN users) > 0

\* AuthManager(): the state after the constructor ran over a user store
\* file, the secret file in order
AuthInitOver(file) ==
    /\ disk = file
    /\ users = _load_users(file)
    /\ active_tokens = EmptyMap
    /\ jwt_secret = "s1"
    /\ secret_file = Some(SecretText("s1", 64))
    /\ store_writable = TRUE
    /\ clock = 0
    /\ nrand = 0
    /\ issued = EmptyMap
    /\ revoked = {}
    /\ call = Call("init", "", "", NoToken, "none")

AuthInit ==
    /\ disk \in InitialStores
    /\ users = Deserialize(disk)
    /\ active_tokens = EmptyMap
    /\ jwt_secret = "s1"
    /\ secret_file = Some(SecretText("s1", 64))
    /\ store_writable = TRUE
    /\ clock = 0
    /\ nrand = 0
    /\ issued = EmptyMap
    /\ revoked = {}
    /\ call = Call("init", "", "", NoToken, "none")

\* verify_token expiring a token one instant early (>= for >)
verify_token_result_early(token) ==
    IF token \notin DOMAIN active_tokens THEN "none"
    ELSE IF clock >= active_tokens[token].exp THEN "none"
    ELSE active_tokens[token].username

\* what AuthManager.verify_token(token) returns in the current state
verify_token_result(token) ==
    IF token \notin DOMAIN active_tokens THEN "none"
    ELSE IF clock > active_tokens[token].exp THEN "none"
    ELSE active_tokens[token].username

\* what AuthManager.authenticate(username, password) returns in the current
\* state; _save_users runs before the token is made, and a failed write
\* raises out of authenticate
authenticate_result(username, password) ==
    IF username \notin DOMAIN users THEN "none"
    ELSE IF ~ _verify_password(password, users[username].password_hash) THEN "none"
    ELSE IF store_writable THEN "token"
    ELSE "raise"

\* _save_users as the last statement before a return of `result`:
\* the write either replaces the file or raises out of the calling method
SaveThenReturn(newUsers, op, username, password, result) ==
    IF store_writable
    THEN /\ disk' = Serialize(newUsers)
         /\ call' = Call(op, username, password, NoToken, result)
    ELSE /\ disk' = disk
         /\ call' = Call(op, username, password, NoToken, "raise")

\* create_user without the check for an existing username
create_user_overwrites(username, password) ==
    \E salt \in Salts :
         /\ users' = (username :> [password_hash |-> _hash_password(password, salt),
                                   created_at |-> clock,
                                   last_login |-> None]) @@ users
         /\ SaveThenReturn(users', "create_user", username, password, "true")
         /\ UNCHANGED <<active_tokens, jwt_secret, store_writable, clock, nrand,
                        issued, revoked>>

create_user(username, password) ==
    IF username \in DOMAIN users
    THEN /\ call' = Call("create_user", username, "", NoToken, "false")
         /\ UNCHANGED <<users, active_tokens, jwt_secret, disk, store_writable,
                        clock, nrand, issued, revoked>>
    ELSE \E salt \in Salts :
         /\ users' = (username :> [password_hash |-> _hash_password(password, salt),
                                   created_at |-> clock,
                                   last_login |-> None]) @@ users
         /\ SaveThenReturn(users', "create_user", username, password, "true")
         /\ UNCHANGED <<active_tokens, jwt_secret, store_writable, clock, nrand,
                        issued, revoked>>

\* delete_user without the removal of the user's tokens
delete_user_keeps_tokens(username) ==
    IF username \notin DOMAIN users
    THEN /\ call' = Call("delete_user", username, "", NoToken, "false")
         /\ UNCHANGED <<users, active_tokens, jwt_secret, disk, store_writable,
                        clock, nrand, issued, revoked>>
    ELSE /\ users' = Without(users, {username})
         /\ revoked' = revoked \cup TokensOf(issued, username)
         /\ SaveThenReturn(users', "delete_user", username, "", "true")
         /\ UNCHANGED <<active_tokens, jwt_secret, store_writable, clock, nrand, issued>>

delete_user(username) ==
    IF username \notin DOMAIN users
    THEN /\ call' = Call("delete_user", username, "", NoToken, "false")
         /\ UNCHANGED <<users, active_tokens, jwt_secret, disk, store_writable,
                        clock, nrand, issued, revoked>>
    ELSE /\ users' = Without(users, {username})
         /\ active_tokens' = Without(active_tokens, TokensOf(active_tokens, username))
         /\ revoked' = revoked \cup TokensOf(issued, username)
         /\ SaveThenReturn(users', "delete_user", username, "", "true")
         /\ UNCHANGED <<jwt_secret, store_writable, clock, nrand, issued>>

change_password(username, old_password, new_password) ==
    IF \/ username \notin DOMAIN users
       \/ ~ _verify_password(old_password, users[username].password_hash)
    THEN /\ call' = Call("change_password", username, "", NoToken, "false")
         /\ UNCHANGED <<users, active_tokens, jwt_secret, disk, store_writable,
                        clock, nrand, issued, revoked>>
    ELSE \E salt \in Salts :
         /\ users' = [users EXCEPT ![username].password_hash =
                                        _hash_password(new_password, salt)]
         /\ active_tokens' = Without(active_tokens, TokensOf(active_tokens, username))
         /\ revoked' = revoked \cup TokensOf(issued, username)
         /\ SaveThenReturn(users', "change_password", username, "", "true")
         /\ UNCHANGED <<jwt_secret, store_writable, clock, nrand, issued>>

\* authenticate without the upgrade of a legacy hash
authenticate_keeps_legacy(username, password) ==
    IF authenticate_result(username, password) = "none"
    THEN /\ call' = Call("authenticate", username, "", NoToken, "none")
         /\ UNCHANGED <<users, active_tokens, jwt_secret, disk, store_writable,
                        clock, nrand, issued, revoked>>
    ELSE \E salt \in Salts :
         LET upgraded == users[username].password_hash
             token == create_access_token(username, jwt_secret, clock, nrand + 1)
             data == [username |-> username,
                      exp |-> clock + TOKEN_LIFETIME_HOURS,
                      iat |-> clock]
         IN /\ nrand < MaxTokens
            /\ users' = [users EXCEPT ![username] =
                            [password_hash |-> upgraded,
                             created_at |-> @.created_at,
                             last_login |-> Some(clock)]]
            /\ IF authenticate_result(username, password) = "token"
               THEN /\ disk' = Serialize(users')
                    /\ active_tokens' = (token :> data) @@ active_tokens
                    /\ issued' = (token :> data) @@ issued
                    /\ nrand' = nrand + 1
                    /\ call' = Call("authenticate", username, "", token, "token")
               ELSE /\ call' = Call("authenticate", username, "", NoToken, "raise")
                    /\ UNCHANGED <<disk, active_tokens, issued, nrand>>
            /\ UNCHANGED <<jwt_secret, store_writable, clock, revoked>>

\* authenticate recording the attempt of a known user before the password
\* check
authenticate_records_attempt(username, password) ==
    IF username \notin DOMAIN users
    THEN /\ call' = Call("authenticate", username, "", NoToken, "none")
         /\ UNCHANGED <<users, active_tokens, jwt_secret, disk, store_writable,
                        clock, nrand, issued, revoked>>
    ELSE IF authenticate_result(username, password) = "none"
    THEN /\ users' = [users EXCEPT ![username].last_login = Some(clock)]
         /\ SaveThenReturn(users', "authenticate", username, "", "none")
         /\ UNCHANGED <<active_tokens, jwt_secret, store_writable, clock, nrand,
                        issued, revoked>>
    ELSE \E salt \in Salts :
         LET upgraded == IF users[username].password_hash.tag # "pbkdf2"
                         THEN _hash_password(password, salt)
                         ELSE users[username].password_hash
             token == create_access_token(username, jwt_secret, clock, nrand + 1)
             data == [username |-> username,
                      exp |-> clock + TOKEN_LIFETIME_HOURS,
                      iat |-> clock]
         IN /\ nrand < MaxTokens
            /\ users' = [users EXCEPT ![username] =
                            [password_hash |-> upgraded,
                             created_at |-> @.created_at,
                             last_login |-> Some(clock)]]
            /\ IF authenticate_result(username, password) = "token"
               THEN /\ disk' = Serialize(users')
                    /\ active_tokens' = (token :> data) @@ active_tokens
                    /\ issued' = (token :> data) @@ issued
                    /\ nrand' = nrand + 1
                    /\ call' = Call("authenticate", username, "", token, "token")
               ELSE /\ call' = Call("authenticate", username, "", NoToken, "raise")
                    /\ UNCHANGED <<disk, active_tokens, issued, nrand>>
            /\ UNCHANGED <<jwt_secret, store_writable, clock, revoked>>

\* authenticate: the password check, the upgrade of a legacy hash, the last
\* login, _save_users, then the token
authenticate(username, password) ==
    IF authenticate_result(username, password) = "none"
    THEN /\ call' = Call("authenticate", username, "", NoToken, "none")
         /\ UNCHANGED <<users, active_tokens, jwt_secret, disk, store_writable,
                        clock, nrand, issued, revoked>>
    ELSE \E salt \in Salts :
         LET upgraded == IF users[username].password_hash.tag # "pbkdf2"
                         THEN _hash_password(password, salt)
                         ELSE users[username].password_hash
             token == create_access_token(username, jwt_secret, clock, nrand + 1)
             data == [username |-> username,
                      exp |-> clock + TOKEN_LIFETIME_HOURS,
                      iat |-> clock]
         IN /\ nrand < MaxTokens
            /\ users' = [users EXCEPT ![username] =
                            [password_hash |-> upgraded,
                             created_at |-> @.created_at,
                             last_login |-> Some(clock)]]
            /\ IF authenticate_result(username, password) = "token"
               THEN /\ disk' = Serialize(users')
                    /\ active_tokens' = (token :> data) @@ active_tokens
                    /\ issued' = (token :> data) @@ issued
                    /\ nrand' = nrand + 1
                    /\ call' = Call("authenticate", username, "", token, "token")
               ELSE /\ call' = Call("authenticate", username, "", NoToken, "raise")
                    /\ UNCHANGED <<disk, active_tokens, issued, nrand>>
            /\ UNCHANGED <<jwt_secret, store_writable, clock, revoked>>

\* verify_token falling back to the signature check of the module-level
\* verify_token(token, secret) when the token is not in memory
verify_token_by_signature(token) ==
    /\ call' = Call("verify_token", "", "", token,
                    IF token \in DOMAIN active_tokens
                    THEN verify_token_result(token)
                    ELSE IF SignatureVerifies(token, jwt_secret)
                         THEN token.username ELSE "none")
    /\ active_tokens' =
          IF token \in DOMAIN active_tokens /\ clock > active_tokens[token].exp
          THEN Without(active_tokens, {token})
          ELSE active_tokens
    /\ UNCHANGED <<users, jwt_secret, disk, store_writable, clock, nrand, issued, revoked>>

\* verify_token with a sliding lifetime: a successful verification moves the
\* expiry to 24 hours from now
verify_token_sliding(token) ==
    /\ call' = Call("verify_token", "", "", token, verify_token_result(token))
    /\ active_tokens' =
          IF token \in DOMAIN active_tokens /\ clock > active_tokens[token].exp
          THEN Without(active_tokens, {token})
          ELSE IF token \in DOMAIN active_tokens
          THEN [active_tokens EXCEPT ![token].exp = clock + TOKEN_LIFETIME_HOURS]
          ELSE active_tokens
    /\ UNCHANGED <<users, jwt_secret, disk, store_writable, clock, nrand, issued, revoked>>

verify_token(token) ==
    /\ call' = Call("verify_token", "", "", token, verify_token_result(token))
    /\ active_tokens' =
          IF token \in DOMAIN active_tokens /\ clock > active_tokens[token].exp
          THEN Without(active_tokens, {token})
          ELSE active_tokens
    /\ UNCHANGED <<users, jwt_secret, disk, store_writable, clock, nrand, issued, revoked>>

logout(token) ==
    /\ IF token \in DOMAIN active_tokens
       THEN /\ active_tokens' = Without(active_tokens, {token})
            /\ call' = Call("logout", "", "", token, "true")
       ELSE /\ call' = Call("logout", "", "", token, "false")
            /\ UNCHANGED active_tokens
    /\ revoked' = revoked \cup ({token} \cap DOMAIN issued)
    /\ UNCHANGED <<users, jwt_secret, disk, store_writable, clock, nrand, issued>>

\* the passage of time between two calls
auth_tick ==
    /\ clock + TickHours <= MaxClock
    /\ clock' = clock + TickHours
    /\ call' = Call("tick", "", "", NoToken, "none")
    /\ UNCHANGED <<users, active_tokens, jwt_secret, disk, store_writable, nrand,
                   issued, revoked>>

\* the user store becomes unwritable (disk full, permissions) or writable
\* again
store_fault ==
    /\ store_writable' = ~store_writable
    /\ call' = Call("fault", "", "", NoToken, "none")
    /\ UNCHANGED <<users, active_tokens, jwt_secret, disk, clock, nrand, issued,
                   revoked>>

\* ------------------------------------------------------------------------
\* authenticate, statement by statement, run by concurrent threads (the
\* AuthManager takes no lock)
\* ------------------------------------------------------------------------
AuthThreads == {"h1", "h2"}

VARIABLES
    auth_pc,    \* thread -> where the thread is in authenticate
    auth_local  \* thread -> its username and password arguments, and history:
                \* whether change_password or delete_user returned true for
                \* that user since the thread verified the password

acVars == <<auth_pc, auth_local>>

NoAuthLocals == [username |-> "", password |-> "", overtaken |-> FALSE]

AuthConcInit ==
    /\ auth_pc = [t \in AuthThreads |-> "idle"]
    /\ auth_local = [t \in AuthThreads |-> NoAuthLocals]

\* authenticate up to the password check: None for an unknown user or a
\* wrong password, else the thread holds the user object
authenticate_verify(t, username, password) ==
    /\ auth_pc[t] = "idle"
    /\ IF authenticate_result(username, password) = "none"
       THEN /\ call' = Call("authenticate", username, "", NoToken, "none")
            /\ UNCHANGED <<auth_pc, auth_local>>
       ELSE /\ auth_pc' = [auth_pc EXCEPT ![t] = "verified"]
            /\ auth_local' = [auth_local EXCEPT ![t] =
                                 [username |-> username, password |-> password,
                                  overtaken |-> FALSE]]
            /\ call' = call
    /\ UNCHANGED <<users, active_tokens, jwt_secret, disk, store_writable, clock,
                   nrand, issued, revoked>>

\* authenticate from the hash upgrade to _save_users, on the user object the
\* thread holds: the object is still in _users unless delete_user removed it
authenticate_save(t) ==
    LET username == auth_local[t].username IN
    /\ auth_pc[t] = "verified"
    /\ \E salt \in Salts :
          users' = IF username \in DOMAIN users
                   THEN [users EXCEPT ![username] =
                           [password_hash |-> IF @.password_hash.tag # "pbkdf2"
                                              THEN _hash_password(auth_local[t].password, salt)
                                              ELSE @.password_hash,
                            created_at |-> @.created_at,
                            last_login |-> Some(clock)]]
                   ELSE users
    /\ IF store_writable
       THEN /\ disk' = Serialize(users')
            /\ auth_pc' = [auth_pc EXCEPT ![t] = "saved"]
            /\ call' = call
            /\ UNCHANGED auth_local
       ELSE /\ disk' = disk
            /\ auth_pc' = [auth_pc EXCEPT ![t] = "idle"]
            /\ auth_local' = [auth_local EXCEPT ![t] = NoAuthLocals]
            /\ call' = Call("authenticate", username, "", NoToken, "raise")
    /\ UNCHANGED <<active_tokens, jwt_secret, store_writable, clock, nrand, issued,
                   revoked>>

\* authenticate from create_access_token to the return of the token
authenticate_mint(t) ==
    LET username == auth_local[t].username
        token == create_access_token(username, jwt_secret, clock, nrand + 1)
        data == [username |-> username,
                 exp |-> clock + TOKEN_LIFETIME_HOURS,
                 iat |-> clock]
    IN /\ auth_pc[t] = "saved"
       /\ nrand < MaxTokens
       /\ active_tokens' = (token :> data) @@ active_tokens
       /\ issued' = (token :> data) @@ issued
       /\ nrand' = nrand + 1
       /\ call' = Call("authenticate", username, "", token, "token")
       /\ auth_pc' = [auth_pc EXCEPT ![t] = "idle"]
       /\ auth_local' = [auth_local EXCEPT ![t] = NoAuthLocals]
       /\ UNCHANGED <<users, jwt_secret, disk, store_writable, clock, revoked>>

\* history: a change_password or delete_user that returned true overtakes
\* the threads that are inside authenticate for the same user with a
\* password that is no longer the user's
Overtake ==
    auth_local' = [t \in AuthThreads |->
                     IF /\ auth_pc[t] # "idle"
                        /\ call'.op \in {"change_password", "delete_user"}
                        /\ call'.ret = "true"
                        /\ call'.username = auth_local[t].username
                        /\ \/ call'.username \notin DOMAIN users'
                           \/ ~ _verify_password(auth_local[t].password,
                                                 users'[call'.username].password_hash)
                     THEN [auth_local[t] EXCEPT !.overtaken = TRUE]
                     ELSE auth_local[t]]

\* ------------------------------------------------------------------------
\* create_user, statement by statement, run by concurrent threads
\* ------------------------------------------------------------------------
VARIABLES
    creators    \* thread -> where it is in create_user ("idle", "checked",
                \* "stored", or what the call returned: "true", "false",
                \* "raise"), its arguments and the AdminUser object it built

cuVars == <<creators>>

Creator(at, username, password, user) ==
    [at |-> at, username |-> username, password |-> password, user |-> user]

CreateConcInit ==
    creators = [t \in AuthThreads |-> Creator("idle", "", "", None)]

\* create_user, `if username in self._users: return False`
create_user_check(t, username, password) ==
    /\ creators[t].at = "idle"
    /\ creators' = [creators EXCEPT ![t] =
                       Creator(IF username \in DOMAIN users THEN "false" ELSE "checked",
                               username, password, None)]
    /\ UNCHANGED <<users, active_tokens, jwt_secret, disk, store_writable, clock,
                   nrand, issued, revoked, call>>

\* create_user, the AdminUser object is built (the salt drawn, the password
\* hashed) and assigned to self._users[username], whatever is there by now
create_user_store(t) ==
    LET username == creators[t].username IN
    /\ creators[t].at = "checked"
    /\ \E salt \in Salts :
          LET user == [password_hash |-> _hash_password(creators[t].password, salt),
                       created_at |-> clock,
                       last_login |-> None]
          IN /\ users' = (username :> user) @@ users
             /\ creators' = [creators EXCEPT ![t].at = "stored", ![t].user = Some(user)]
    /\ UNCHANGED <<active_tokens, jwt_secret, disk, store_writable, clock, nrand,
                   issued, revoked, call>>

\* create_user, _save_users and `return True`
create_user_save(t) ==
    /\ creators[t].at = "stored"
    /\ IF store_writable
       THEN /\ disk' = Serialize(users)
            /\ creators' = [creators EXCEPT ![t].at = "true"]
       ELSE /\ disk' = disk
            /\ creators' = [creators EXCEPT ![t].at = "raise"]
    /\ call' = Call("create_user", creators[t].username, creators[t].password, NoToken,
                    creators'[t].at)
    /\ UNCHANGED <<users, active_tokens, jwt_secret, store_writable, clock, nrand,
                   issued, revoked>>

\* ------------------------------------------------------------------------
\* verify_token, statement by statement, run by concurrent threads
\* ------------------------------------------------------------------------
VARIABLES
    verifiers   \* thread -> where it is in verify_token ("idle", "found",
                \* "read", or "raise" once the call has raised), its token
                \* argument and the TokenData object it holds

vtVars == <<verifiers>>

Verifier(at, token, token_data) == [at |-> at, token |-> token, token_data |-> token_data]

VerifyConcInit ==
    verifiers = [t \in AuthThreads |-> Verifier("idle", NoToken, None)]

\* verify_token, `if token not in self._active_tokens: return None`
verify_token_check(t, token) ==
    /\ verifiers[t].at = "idle"
    /\ IF token \notin DOMAIN active_tokens
       THEN /\ call' = Call("verify_token", "", "", token, "none")
            /\ UNCHANGED verifiers
       ELSE /\ verifiers' = [verifiers EXCEPT ![t] = Verifier("found", token, None)]
            /\ call' = call
    /\ UNCHANGED <<users, active_tokens, jwt_secret, disk, store_writable, clock,
                   nrand, issued, revoked>>

\* verify_token, `token_data = self._active_tokens[token]`: KeyError when
\* the token has been removed since the test
verify_token_read(t) ==
    LET token == verifiers[t].token IN
    /\ verifiers[t].at = "found"
    /\ IF token \in DOMAIN active_tokens
       THEN /\ verifiers' = [verifiers EXCEPT ![t] =
                                Verifier("read", token, Some(active_tokens[token]))]
            /\ call' = call
       ELSE /\ verifiers' = [verifiers EXCEPT ![t].at = "raise"]
            /\ call' = Call("verify_token", "", "", token, "raise")
    /\ UNCHANGED <<users, active_tokens, jwt_secret, disk, store_writable, clock,
                   nrand, issued, revoked>>

\* verify_token from `if datetime.now() > token_data.exp` to the return:
\* `del self._active_tokens[token]` raises KeyError when the token has been
\* removed since it was read
verify_token_expiry(t) ==
    LET token == verifiers[t].token
        token_data == verifiers[t].token_data[1]
    IN /\ verifiers[t].at = "read"
       /\ IF clock > token_data.exp
          THEN IF token \in DOMAIN active_tokens
               THEN /\ active_tokens' = Without(active_tokens, {token})
                    /\ verifiers' = [verifiers EXCEPT ![t] = Verifier("idle", NoToken, None)]
                    /\ call' = Call("verify_token", "", "", token, "none")
               ELSE /\ active_tokens' = active_tokens
                    /\ verifiers' = [verifiers EXCEPT ![t].at = "raise"]
                    /\ call' = Call("verify_token", "", "", token, "raise")
          ELSE /\ active_tokens' = active_tokens
               /\ verifiers' = [verifiers EXCEPT ![t] = Verifier("idle", NoToken, None)]
               /\ call' = Call("verify_token", "", "", token, token_data.username)
       /\ UNCHANGED <<users, jwt_secret, disk, store_writable, clock, nrand, issued,
                      revoked>>

\* ------------------------------------------------------------------------
\* RateLimiter
\* ------------------------------------------------------------------------
Clients == {"a", "b", "c"}
\* the identity SpecRL follows through the three windows
TierClients == {"a"}

\* the limits the limiter is constructed with
per_minute == 2
per_hour == 3
per_day == 4

\* RateLimiter.MAX_TRACKED_CLIENTS, scaled down from 10000
MAX_TRACKED_CLIENTS == 2

\* the window lengths in is_allowed and _get_requests, in seconds
MINUTE == 60
HOUR == 3600
DAY == 86400

\* the instants (time.time(), in seconds) at which calls arrive
Instants == {0, 30, 60, 90, 3630, 3660, 86400, 86460}
\* the instants of SpecLRU: two calls more than a day apart
LRUInstants == {0, 86460}

\* record_request appends without a limit: the model stops it at this length
MaxLedger == 4

VARIABLES
    _requests,  \* RateLimiter._requests: the OrderedDict as a sequence of
                \* [client, ts] entries, least recently used first
    now,        \* time.time()
    rl_call,    \* the last call on the limiter and its result
    admitted,   \* history: client -> timestamps is_allowed admitted, kept while
                \* the client has been driven by is_allowed alone
    pure,       \* history: client -> no record_request, reset or eviction hit it
    served,     \* history: the tracked clients in the order of their last
                \* is_allowed or record_request call, oldest first
    touched     \* history: the same, with get_stats calls counted too

rlVars == <<_requests, now, rl_call, admitted, pure, served, touched>>

\* --- OrderedDict ---
OD_Keys(od) == {od[i].client : i \in 1..Len(od)}

OD_Index(od, c) == CHOOSE i \in 1..Len(od) : od[i].client = c

\* od.get(c, [])
OD_Get(od, c) == IF c \in OD_Keys(od) THEN od[OD_Index(od, c)].ts ELSE <<>>

OD_Del(od, c) == SelectSeq(od, LAMBDA e : e.client # c)

\* od[c] = v: an existing key keeps its position, a new key goes to the end
OD_Set(od, c, v) ==
    IF c \in OD_Keys(od)
    THEN [od EXCEPT ![OD_Index(od, c)].ts = v]
    ELSE Append(od, [client |-> c, ts |-> v])

\* od.move_to_end(c), for a key that is present
OD_MoveToEnd(od, c) == Append(OD_Del(od, c), od[OD_Index(od, c)])

\* sum(1 for t in requests if t > bound)
CountAfter(requests, bound) ==
    Cardinality({i \in 1..Len(requests) : requests[i] > bound})

\* _get_requests(client_id, now): the dict afterwards and the list returned
_get_requests(od, c, t) ==
    LET requests == OD_Get(od, c)
        cleaned == SelectSeq(requests, LAMBDA x : x > t - DAY)
    IN IF requests # <<>>
       THEN [od |-> OD_MoveToEnd(OD_Set(od, c, cleaned), c), requests |-> cleaned]
       ELSE [od |-> od, requests |-> <<>>]

\* _evict_if_needed: popitem(last=False) while over the cap
RECURSIVE _evict_if_needed(_)
_evict_if_needed(od) ==
    IF Len(od) > MAX_TRACKED_CLIENTS THEN _evict_if_needed(Tail(od)) ELSE od

\* the minute tier counting the whole day's list instead of the last 60 s
RejectedTier_no_minute_window(requests, t) ==
    IF CountAfter(requests, t - DAY) >= per_minute THEN "minute"
    ELSE IF CountAfter(requests, t - HOUR) >= per_hour THEN "hour"
    ELSE IF Len(requests) >= per_day THEN "day"
    ELSE "none"

\* the hour tier checked before the minute tier
RejectedTier_hour_first(requests, t) ==
    IF CountAfter(requests, t - HOUR) >= per_hour THEN "hour"
    ELSE IF CountAfter(requests, t - MINUTE) >= per_minute THEN "minute"
    ELSE IF Len(requests) >= per_day THEN "day"
    ELSE "none"

\* the tier is_allowed rejects on, given the pruned list: the checks of
\* lines 94-104 in their order
RejectedTier(requests, t) ==
    IF CountAfter(requests, t - MINUTE) >= per_minute THEN "minute"
    ELSE IF CountAfter(requests, t - HOUR) >= per_hour THEN "hour"
    ELSE IF Len(requests) >= per_day THEN "day"
    ELSE "none"

\* f"Rate limit exceeded: {limit} requests per {unit}" as its two variable parts
Reason(tier) ==
    IF tier = "minute" THEN <<per_minute, "minute">>
    ELSE IF tier = "hour" THEN <<per_hour, "hour">>
    ELSE IF tier = "day" THEN <<per_day, "day">>
    ELSE <<>>

RLCall(op, client, allowed, reason, stats) ==
    [op |-> op, client |-> client, allowed |-> allowed, reason |-> reason,
     stats |-> stats]

\* the served-order history after client c was served and the dict became od
Touch(order, c, od) ==
    LET moved == IF c \in OD_Keys(od)
                 THEN Append(SelectSeq(order, LAMBDA x : x # c), c)
                 ELSE order
    IN SelectSeq(moved, LAMBDA x : x \in OD_Keys(od))

\* clients that lost their ledger between od and newOd stop being `pure`
Spoil(S) ==
    /\ pure' = [c \in Clients |-> pure[c] /\ c \notin S]
    /\ admitted' = [c \in Clients |-> IF c \in S THEN <<>> ELSE admitted[c]]

RLInit ==
    /\ _requests = <<>>
    /\ now = 0
    /\ rl_call = RLCall("init", "", FALSE, <<>>, <<>>)
    /\ admitted = [c \in Clients |-> <<>>]
    /\ pure = [c \in Clients |-> TRUE]
    /\ served = <<>>
    /\ touched = <<>>

\* is_allowed appending the timestamp before the three checks
is_allowed_records_first(c) ==
    LET got == _get_requests(_requests, c, now)
        tier == RejectedTier(got.requests, now)
        recorded == OD_Set(got.od, c, Append(got.requests, now))
        newOd == _evict_if_needed(recorded)
        lost == OD_Keys(_requests) \ OD_Keys(newOd)
    IN /\ _requests' = newOd
       /\ rl_call' = RLCall("is_allowed", c, tier = "none", Reason(tier), <<>>)
       /\ pure' = [x \in Clients |-> pure[x] /\ x \notin lost]
       /\ admitted' = [x \in Clients |->
                          IF x \in lost \/ ~pure[x] THEN <<>>
                          ELSE IF x = c /\ tier = "none" THEN Append(admitted[x], now)
                          ELSE admitted[x]]
       /\ served' = Touch(served, c, newOd)
       /\ touched' = Touch(touched, c, newOd)
       /\ UNCHANGED now

\* is_allowed(client_id), the whole body under the lock
is_allowed(c) ==
    LET got == _get_requests(_requests, c, now)
        tier == RejectedTier(got.requests, now)
        recorded == OD_Set(got.od, c, Append(got.requests, now))
        newOd == IF tier = "none" THEN _evict_if_needed(recorded) ELSE got.od
        lost == OD_Keys(_requests) \ OD_Keys(newOd)
    IN /\ _requests' = newOd
       /\ rl_call' = RLCall("is_allowed", c, tier = "none", Reason(tier), <<>>)
       /\ pure' = [x \in Clients |-> pure[x] /\ x \notin lost]
       /\ admitted' = [x \in Clients |->
                          IF x \in lost \/ ~pure[x] THEN <<>>
                          ELSE IF x = c /\ tier = "none" THEN Append(admitted[x], now)
                          ELSE admitted[x]]
       /\ served' = Touch(served, c, newOd)
       /\ touched' = Touch(touched, c, newOd)
       /\ UNCHANGED now

\* record_request(client_id)
record_request(c) ==
    LET requests == Append(OD_Get(_requests, c), now)
        newOd == _evict_if_needed(OD_MoveToEnd(OD_Set(_requests, c, requests), c))
        lost == (OD_Keys(_requests) \ OD_Keys(newOd)) \cup {c}
    IN /\ Len(OD_Get(_requests, c)) < MaxLedger
       /\ _requests' = newOd
       /\ rl_call' = RLCall("record_request", c, FALSE, <<>>, <<>>)
       /\ Spoil(lost)
       /\ served' = Touch(served, c, newOd)
       /\ touched' = Touch(touched, c, newOd)
       /\ UNCHANGED now

\* get_stats(client_id)
get_stats(c) ==
    LET got == _get_requests(_requests, c, now)
    IN /\ _requests' = got.od
       /\ rl_call' = RLCall("get_stats", c, FALSE, <<>>,
                            <<CountAfter(got.requests, now - MINUTE),
                              CountAfter(got.requests, now - HOUR),
                              Len(got.requests)>>)
       /\ served' = SelectSeq(served, LAMBDA x : x \in OD_Keys(got.od))
       /\ touched' = Touch(touched, c, got.od)
       /\ UNCHANGED <<now, admitted, pure>>

\* reset(client_id); "" stands for reset(None)
reset(c) ==
    LET newOd == IF c = "" THEN <<>>
                 ELSE IF c \in OD_Keys(_requests) THEN OD_Del(_requests, c)
                 ELSE _requests
    IN /\ _requests' = newOd
       /\ rl_call' = RLCall("reset", c, FALSE, <<>>, <<>>)
       /\ Spoil(IF c = "" THEN Clients ELSE {c})
       /\ served' = SelectSeq(served, LAMBDA x : x \in OD_Keys(newOd))
       /\ touched' = SelectSeq(touched, LAMBDA x : x \in OD_Keys(newOd))
       /\ UNCHANGED now

\* time passes between two calls
rl_tick(t) ==
    /\ t > now
    /\ now' = t
    /\ rl_call' = RLCall("tick", "", FALSE, <<>>, <<>>)
    /\ UNCHANGED <<_requests, admitted, pure, served, touched>>

\* ------------------------------------------------------------------------
\* is_allowed, statement by statement, run by concurrent threads
\* ------------------------------------------------------------------------
Threads == {"t1", "t2"}

VARIABLES
    lock,   \* RateLimiter._lock: the thread holding it, or "" when free
    pc,     \* thread -> where the thread is in is_allowed
    local   \* thread -> the locals of its is_allowed call: client_id, now, requests

concVars == <<lock, pc, local>>

NoLocals == [client |-> "", now |-> 0, requests |-> <<>>, tier |-> "none"]

ConcInit ==
    /\ lock = ""
    /\ pc = [t \in Threads |-> "idle"]
    /\ local = [t \in Threads |-> NoLocals]

\* Lock.acquire ignoring the holder
LockAvailable_always(l) == TRUE

\* Lock.acquire returns only when nobody holds the lock
LockAvailable(l) == l = ""

\* `with self._lock:` entered by a thread calling is_allowed(c)
acquire(t, c) ==
    /\ pc[t] = "idle"
    /\ LockAvailable(lock)
    /\ lock' = t
    /\ pc' = [pc EXCEPT ![t] = "get"]
    /\ local' = [local EXCEPT ![t] = [NoLocals EXCEPT !.client = c]]
    /\ UNCHANGED rlVars

\* now = time.time(); requests = self._get_requests(client_id, now)
get(t) ==
    /\ pc[t] = "get"
    /\ LET got == _get_requests(_requests, local[t].client, now)
       IN /\ _requests' = got.od
          /\ local' = [local EXCEPT ![t].now = now, ![t].requests = got.requests]
    /\ pc' = [pc EXCEPT ![t] = "check"]
    /\ UNCHANGED <<lock, now, rl_call, admitted, pure, served, touched>>

\* the three window checks
check(t) ==
    /\ pc[t] = "check"
    /\ LET tier == RejectedTier(local[t].requests, local[t].now)
       IN /\ local' = [local EXCEPT ![t].tier = tier]
          /\ pc' = [pc EXCEPT ![t] = IF tier = "none" THEN "record" ELSE "return"]
    /\ UNCHANGED <<lock, rlVars, cuVars, vtVars>>

\* requests.append(now); self._requests[client_id] = requests; self._evict_if_needed()
record(t) ==
    /\ pc[t] = "record"
    /\ LET c == local[t].client
           newOd == _evict_if_needed(
                        OD_Set(_requests, c, Append(local[t].requests, local[t].now)))
       IN /\ _requests' = newOd
          /\ admitted' = [admitted EXCEPT ![c] = Append(@, local[t].now)]
    /\ pc' = [pc EXCEPT ![t] = "return"]
    /\ UNCHANGED <<lock, local, now, rl_call, pure, served, touched>>

\* leaving the with block and returning
release(t) ==
    /\ pc[t] = "return"
    /\ lock' = IF lock = t THEN "" ELSE lock
    /\ pc' = [pc EXCEPT ![t] = "idle"]
    /\ local' = [local EXCEPT ![t] = NoLocals]
    /\ rl_call' = RLCall("is_allowed", local[t].client, local[t].tier = "none",
                         Reason(local[t].tier), <<>>)
    /\ served' = Touch(served, local[t].client, _requests)
    /\ touched' = Touch(touched, local[t].client, _requests)
    /\ UNCHANGED <<_requests, now, admitted, pure>>

\* ------------------------------------------------------------------------
\* OAuth token refresher: OAuthTokenRefresher and the persisted credential
\* ------------------------------------------------------------------------
\* OAuthTokenRefresher.__init__ defaults, in seconds
check_interval == 3600
refresh_buffer == 300

\* the instant the model starts at, how many periods it follows and how
\* many worker threads start() may create
StartInstant == 1000
MaxPeriods == 1
MaxWorkers == 2

\* Optional[datetime] of oauth_expires_at: 0 is None, instants are positive
NoExpiry == 0
\* lifetime of the access token an exchange returns, when it returns one
AccessLifetime == 7200

VARIABLES
    settings,       \* ~/.iflow/settings.json: the persisted credential
    rnow,           \* datetime.now() seen by the refresher
    _running,       \* OAuthTokenRefresher._running
    _thread,        \* OAuthTokenRefresher._thread: a worker's number, 0 is None
    _stop_event,    \* OAuthTokenRefresher._stop_event
    _loop_running,  \* self._loop and self._loop.is_running()
    _on_refresh_callback, \* whether an observer callback is registered
    caller,         \* where the thread calling start()/stop() is: "idle" or "join"
    workers,        \* the threads start() created, in creation order
    tasks,          \* the _refresh_token coroutines scheduled so far
    writer,         \* history: the coroutine that persisted settings last, 0: none
    ref_call        \* history: the last start()/stop() call and what it did

refVars == <<settings, rnow, _running, _thread, _stop_event, _loop_running,
             _on_refresh_callback, caller, workers, tasks, writer, ref_call>>

\* IFlowConfig: the fields of the credential, and model_name standing for
\* the settings the refresher has no business with (api_key, base_url,
\* model_name, cna)
Credential(auth_type, access, refresh, expires_at) ==
    [auth_type |-> auth_type, oauth_access_token |-> access,
     oauth_refresh_token |-> refresh, oauth_expires_at |-> expires_at,
     model_name |-> "m0"]

\* the credentials the settings file may hold when the refresher is built:
\* access token 0 is the one obtained at login, "" is a missing refresh token
InitialCredentials ==
    { Credential("oauth-iflow", 0, "rt0", StartInstant + refresh_buffer),
      Credential("oauth-iflow", 0, "rt0", StartInstant + refresh_buffer + 1),
      Credential("oauth-iflow", 0, "", StartInstant + refresh_buffer),
      Credential("oauth-iflow", 0, "rt0", NoExpiry),
      Credential("api-key", 0, "rt0", StartInstant + refresh_buffer) }

\* token_data when no exchange result exists
NoResult == [access_token |-> -1, refresh_token |-> "", expires_at |-> NoExpiry]

\* what the n-th exchange may return at instant t: a new access token (n),
\* alone or with a rotated refresh token and a new expiry
ExchangeResults(n, t) ==
    { [access_token |-> n, refresh_token |-> "", expires_at |-> NoExpiry],
      [access_token |-> n, refresh_token |-> "rt1", expires_at |-> t + AccessLifetime] }

\* an exchange answer without an access token: the body of the HTTP response
\* is JSON that lacks the key
ResultsWithoutAccessToken(t) ==
    { [refresh_token |-> "", expires_at |-> NoExpiry],
      [refresh_token |-> "rt1", expires_at |-> t + AccessLifetime] }

\* IFlowOAuth.is_token_expired(expires_at, buffer): the expiry has passed or
\* lies within buffer seconds of now
is_token_expired(expires_at, buffer, t) == expires_at - t <= buffer

\* the test of _run_loop that ignores the expiry
ShouldRefresh_always(config, t) ==
    /\ config.auth_type = "oauth-iflow"
    /\ config.oauth_refresh_token # ""
    /\ config.oauth_expires_at # NoExpiry

\* the test of _run_loop that ignores the auth type
ShouldRefresh_any_auth_type(config, t) ==
    /\ config.oauth_refresh_token # ""
    /\ config.oauth_expires_at # NoExpiry
    /\ is_token_expired(config.oauth_expires_at, refresh_buffer, t)

\* the test of _run_loop: delegated-OAuth mode, a refresh token, an expiry,
\* and the expiry inside the refresh buffer
ShouldRefresh(config, t) ==
    /\ config.auth_type = "oauth-iflow"
    /\ config.oauth_refresh_token # ""
    /\ config.oauth_expires_at # NoExpiry
    /\ is_token_expired(config.oauth_expires_at, refresh_buffer, t)

\* the access token "" (access tokens are numbers here, the empty one is -2)
EmptyAccessToken == -2

\* dict.get(key, default)
DictGet(d, key, default) == IF key \in DOMAIN d THEN d[key] ELSE default

\* "更新配置" assigning the three fields whatever token_data holds
UpdateConfig_assigns_all(config, token_data) ==
    [config EXCEPT
       !.oauth_access_token = DictGet(token_data, "access_token", EmptyAccessToken),
       !.oauth_refresh_token = token_data.refresh_token,
       !.oauth_expires_at = token_data.expires_at]

\* _refresh_token, "更新配置": the access token is replaced, the refresh
\* token and the expiry only when the exchange returned them
UpdateConfig(config, token_data) ==
    [config EXCEPT
       !.oauth_access_token = DictGet(token_data, "access_token", EmptyAccessToken),
       !.oauth_refresh_token = IF token_data.refresh_token # ""
                               THEN token_data.refresh_token ELSE @,
       !.oauth_expires_at = IF token_data.expires_at # NoExpiry
                            THEN token_data.expires_at ELSE @]

\* a worker thread: where it is in _run_loop, when its wait began, the
\* coroutine of its current cycle (0: none), and history: whether its last
\* cycle failed
Worker(at, since, task, failed) ==
    [at |-> at, since |-> since, task |-> task, failed |-> failed]

NoCredential == Credential("", -1, "", NoExpiry)

\* a _refresh_token coroutine: its config argument, where it is, whether it
\* runs on the main loop ("handoff") or under asyncio.run ("private"), and
\* history: whether its waiter gave up, the exchange calls it made, what the
\* exchange returned, whether it persisted the credential, whether it
\* invoked the callback and with what argument, whether anything in it raised
Task(config, at, mode) ==
    [config |-> config, at |-> at, mode |-> mode, abandoned |-> FALSE,
     exchanges |-> 0, result |-> NoResult, wrote |-> FALSE,
     notified |-> FALSE, told |-> NoResult, failed |-> FALSE]

\* a coroutine that is over: its config and token_data objects are gone
Finished(task, failed) ==
    [task EXCEPT !.at = "done", !.config = NoCredential, !.result = NoResult,
                 !.told = NoResult, !.failed = failed]

RefCall(op, effect) == [op |-> op, effect |-> effect]

\* the refresher right after OAuthTokenRefresher(), not started
RefInitWith(credential, loop, callback) ==
    /\ settings = credential
    /\ rnow = StartInstant
    /\ _running = FALSE
    /\ _thread = 0
    /\ _stop_event = FALSE
    /\ _loop_running = loop
    /\ _on_refresh_callback = callback
    /\ caller = "idle"
    /\ workers = <<>>
    /\ tasks = <<>>
    /\ writer = 0
    /\ ref_call = RefCall("init", "")

RefInit == RefInitWith(Credential("oauth-iflow", 0, "rt0", StartInstant + refresh_buffer), TRUE, TRUE)

RefInitAny ==
    \E c \in InitialCredentials, loop \in BOOLEAN, callback \in BOOLEAN :
        RefInitWith(c, loop, callback)

SetWorker(w, r) == [workers EXCEPT ![w] = r]
SetTask(i, r) == [tasks EXCEPT ![i] = r]

\* start(): nothing when running, else a new worker thread at the top of
\* _run_loop
start ==
    /\ caller = "idle"
    /\ IF _running
       THEN /\ ref_call' = RefCall("start", "noop")
            /\ UNCHANGED <<settings, writer, rnow, _running, _thread, _stop_event,
                           _loop_running, _on_refresh_callback, caller, workers,
                           tasks>>
       ELSE /\ Len(workers) < MaxWorkers
            /\ _running' = TRUE
            /\ _stop_event' = FALSE
            /\ workers' = Append(workers, Worker("check", rnow, 0, FALSE))
            /\ _thread' = Len(workers) + 1
            /\ ref_call' = RefCall("start", "started")
            /\ UNCHANGED <<settings, writer, rnow, _loop_running, _on_refresh_callback,
                           caller, tasks>>

\* stop() up to the join: nothing when not running, else the flag and the
\* event, and the caller enters Thread.join(timeout=5.0)
stop ==
    /\ caller = "idle"
    /\ IF ~_running
       THEN /\ ref_call' = RefCall("stop", "noop")
            /\ UNCHANGED <<settings, writer, rnow, _running, _thread, _stop_event,
                           _loop_running, _on_refresh_callback, caller, workers,
                           tasks>>
       ELSE /\ _running' = FALSE
            /\ _stop_event' = TRUE
            /\ caller' = IF _thread # 0 THEN "join" ELSE "idle"
            /\ ref_call' = RefCall("stop", "signalled")
            /\ UNCHANGED <<settings, writer, rnow, _thread, _loop_running,
                           _on_refresh_callback, workers, tasks>>

\* the join of stop() returns: the worker ended, or 5 seconds passed while
\* the worker was inside _schedule_refresh; then self._thread = None
join ==
    /\ caller = "join"
    /\ workers[_thread].at \in {"dead", "blocked"}
    /\ caller' = "idle"
    /\ _thread' = 0
    /\ UNCHANGED <<settings, writer, rnow, _running, _stop_event, _loop_running,
                   _on_refresh_callback, workers, tasks, ref_call>>

\* _run_loop, the while test: the thread ends when the event is set
_run_loop_while(w) ==
    /\ workers[w].at = "check"
    /\ workers' = SetWorker(w, [workers[w] EXCEPT
                                  !.at = IF _stop_event THEN "dead" ELSE "load"])
    /\ UNCHANGED <<settings, writer, rnow, _running, _thread, _stop_event, _loop_running,
                   _on_refresh_callback, caller, tasks, ref_call>>

\* _run_loop without the try/except around the cycle: an exception ends the
\* thread
_run_loop_cycle_uncaught(w, readable) ==
    /\ workers[w].at = "load"
    /\ IF ~readable
       THEN /\ workers' = SetWorker(w, Worker("dead", rnow, 0, TRUE))
            /\ tasks' = tasks
       ELSE IF ShouldRefresh(settings, rnow)
       THEN /\ tasks' = Append(tasks, Task(settings, "pending",
                                IF _loop_running THEN "handoff" ELSE "private"))
            /\ workers' = SetWorker(w, Worker("blocked", rnow, Len(tasks) + 1, FALSE))
       ELSE /\ workers' = SetWorker(w, Worker("wait", rnow, 0, FALSE))
            /\ tasks' = tasks
    /\ UNCHANGED <<settings, writer, rnow, _running, _thread, _stop_event, _loop_running,
                   _on_refresh_callback, caller, ref_call>>

\* _run_loop, the body of the try up to the call of _schedule_refresh:
\* load_iflow_config raises (swallowed) or returns the persisted credential;
\* when the refresh is due the coroutine is created and handed to the main
\* loop if it runs, else to asyncio.run
_run_loop_cycle(w, readable) ==
    /\ workers[w].at = "load"
    /\ IF ~readable
       THEN /\ workers' = SetWorker(w, Worker("wait", rnow, 0, TRUE))
            /\ tasks' = tasks
       ELSE IF ShouldRefresh(settings, rnow)
       THEN /\ tasks' = Append(tasks, Task(settings, "pending",
                                IF _loop_running THEN "handoff" ELSE "private"))
            /\ workers' = SetWorker(w, Worker("blocked", rnow, Len(tasks) + 1, FALSE))
       ELSE /\ workers' = SetWorker(w, Worker("wait", rnow, 0, FALSE))
            /\ tasks' = tasks
    /\ UNCHANGED <<settings, writer, rnow, _running, _thread, _stop_event, _loop_running,
                   _on_refresh_callback, caller, ref_call>>

\* _schedule_refresh returns: future.result or asyncio.run came back, with
\* or without an exception (swallowed)
_schedule_refresh_done(w) ==
    /\ workers[w].at = "blocked"
    /\ tasks[workers[w].task].at = "done"
    /\ workers' = SetWorker(w, [workers[w] EXCEPT
                                  !.at = "wait", !.since = rnow,
                                  !.failed = tasks[workers[w].task].failed])
    /\ UNCHANGED <<settings, writer, rnow, _running, _thread, _stop_event, _loop_running,
                   _on_refresh_callback, caller, tasks, ref_call>>

\* _schedule_refresh calling future.result() without a timeout: it returns
\* only when the coroutine is over
_schedule_refresh_waits_forever(w) ==
    /\ workers[w].at = "blocked"
    /\ tasks[workers[w].task].mode = "handoff"
    /\ tasks[workers[w].task].at = "done"
    /\ tasks' = tasks
    /\ workers' = SetWorker(w, [workers[w] EXCEPT
                                  !.at = "wait", !.since = rnow,
                                  !.failed = tasks[workers[w].task].failed])
    /\ UNCHANGED <<settings, writer, rnow, _running, _thread, _stop_event, _loop_running,
                   _on_refresh_callback, caller, ref_call>>

\* _schedule_refresh, future.result(timeout=30) times out: the worker gives
\* the cycle up, the coroutine stays on the main loop
_schedule_refresh_timeout(w) ==
    /\ workers[w].at = "blocked"
    /\ tasks[workers[w].task].mode = "handoff"
    /\ tasks[workers[w].task].at # "done"
    /\ tasks' = SetTask(workers[w].task, [tasks[workers[w].task] EXCEPT !.abandoned = TRUE])
    /\ workers' = SetWorker(w, [workers[w] EXCEPT
                                  !.at = "wait", !.since = rnow, !.failed = TRUE])
    /\ UNCHANGED <<settings, writer, rnow, _running, _thread, _stop_event, _loop_running,
                   _on_refresh_callback, caller, ref_call>>

\* _run_loop sleeping the whole period (time.sleep for Event.wait)
_run_loop_wait_sleeps(w) ==
    /\ workers[w].at = "wait"
    /\ rnow >= workers[w].since + check_interval
    /\ workers' = SetWorker(w, [workers[w] EXCEPT !.at = "check"])
    /\ UNCHANGED <<settings, writer, rnow, _running, _thread, _stop_event, _loop_running,
                   _on_refresh_callback, caller, tasks, ref_call>>

\* _run_loop, self._stop_event.wait(self.check_interval) returns: the event
\* is set or the period has passed
_run_loop_wait(w) ==
    /\ workers[w].at = "wait"
    /\ _stop_event \/ rnow >= workers[w].since + check_interval
    /\ workers' = SetWorker(w, [workers[w] EXCEPT !.at = "check"])
    /\ UNCHANGED <<settings, writer, rnow, _running, _thread, _stop_event, _loop_running,
                   _on_refresh_callback, caller, tasks, ref_call>>

\* _refresh_token up to the await of the exchange: nothing to do without a
\* refresh token, else the exchange call is made
_refresh_token_exchange(i) ==
    /\ tasks[i].at = "pending"
    /\ IF tasks[i].config.oauth_refresh_token = ""
       THEN tasks' = SetTask(i, [tasks[i] EXCEPT !.at = "closing"])
       ELSE tasks' = SetTask(i, [tasks[i] EXCEPT !.at = "exchanging", !.exchanges = @ + 1])
    /\ UNCHANGED <<settings, writer, rnow, _running, _thread, _stop_event, _loop_running,
                   _on_refresh_callback, caller, workers, ref_call>>

\* the outcomes of one resumption of _refresh_token: the exchange returned
\* token_data or raised, save_iflow_config returned or raised, the callback
\* returned or raised
Outcome(returned, token_data, saved, callback_returned) ==
    [returned |-> returned, token_data |-> token_data, saved |-> saved,
     callback_returned |-> callback_returned]

Outcomes(i, t) ==
    { Outcome(FALSE, NoResult, FALSE, FALSE) }
    \cup { Outcome(TRUE, d, FALSE, FALSE) : d \in ExchangeResults(i, t) }
    \cup { Outcome(TRUE, d, TRUE, c) : d \in ExchangeResults(i, t), c \in BOOLEAN }

\* _refresh_token treating a failed exchange as an empty result
_refresh_token_resume_ignores_failure(i, o) ==
    LET config == UpdateConfig(tasks[i].config, o.token_data) IN
    /\ tasks[i].at = "exchanging"
    /\ IF ~o.saved /\ o.returned
       THEN /\ tasks' = SetTask(i, [tasks[i] EXCEPT !.at = "closing", !.config = config,
                                       !.result = o.token_data, !.failed = TRUE])
            /\ UNCHANGED <<settings, writer>>
       ELSE /\ settings' = config
            /\ writer' = i
            /\ tasks' = SetTask(i, [tasks[i] EXCEPT
                                      !.at = "closing", !.config = config,
                                      !.result = o.token_data, !.wrote = TRUE,
                                      !.notified = _on_refresh_callback,
                                      !.told = IF _on_refresh_callback
                                               THEN o.token_data ELSE NoResult,
                                      !.failed = _on_refresh_callback /\ ~o.callback_returned])
    /\ UNCHANGED <<rnow, _running, _thread, _stop_event, _loop_running,
                   _on_refresh_callback, caller, workers, ref_call>>

\* _refresh_token calling the callback before save_iflow_config
_refresh_token_resume_callback_first(i, o) ==
    LET config == UpdateConfig(tasks[i].config, o.token_data) IN
    /\ tasks[i].at = "exchanging"
    /\ IF ~o.returned
       THEN /\ tasks' = SetTask(i, [tasks[i] EXCEPT !.at = "closing", !.failed = TRUE])
            /\ UNCHANGED <<settings, writer>>
       ELSE IF ~o.saved
       THEN /\ tasks' = SetTask(i, [tasks[i] EXCEPT !.at = "closing", !.config = config,
                                       !.result = o.token_data,
                                       !.notified = _on_refresh_callback,
                                       !.told = IF _on_refresh_callback
                                                THEN o.token_data ELSE NoResult,
                                       !.failed = TRUE])
            /\ UNCHANGED <<settings, writer>>
       ELSE /\ settings' = config
            /\ writer' = i
            /\ tasks' = SetTask(i, [tasks[i] EXCEPT
                                      !.at = "closing", !.config = config,
                                      !.result = o.token_data, !.wrote = TRUE,
                                      !.notified = _on_refresh_callback,
                                      !.told = IF _on_refresh_callback
                                               THEN o.token_data ELSE NoResult,
                                      !.failed = _on_refresh_callback /\ ~o.callback_returned])
    /\ UNCHANGED <<rnow, _running, _thread, _stop_event, _loop_running,
                   _on_refresh_callback, caller, workers, ref_call>>

\* _refresh_token from the return of the exchange to the finally clause.
\* The exchange raised: nothing is saved, nobody is called. It returned
\* token_data: the config object is updated and saved (the save replaces the
\* persisted credential or raises), then the callback, if registered, is
\* called with token_data (it returns or raises). The except clause swallows
\* every exception.
_refresh_token_resume(i, o) ==
    LET config == UpdateConfig(tasks[i].config, o.token_data) IN
    /\ tasks[i].at = "exchanging"
    /\ IF ~o.returned
       THEN /\ tasks' = SetTask(i, [tasks[i] EXCEPT !.at = "closing", !.failed = TRUE])
            /\ UNCHANGED <<settings, writer>>
       ELSE IF ~o.saved
       THEN /\ tasks' = SetTask(i, [tasks[i] EXCEPT !.at = "closing", !.config = config,
                                       !.result = o.token_data, !.failed = TRUE])
            /\ UNCHANGED <<settings, writer>>
       ELSE /\ settings' = config
            /\ writer' = i
            /\ tasks' = SetTask(i, [tasks[i] EXCEPT
                                      !.at = "closing", !.config = config,
                                      !.result = o.token_data, !.wrote = TRUE,
                                      !.notified = _on_refresh_callback,
                                      !.told = IF _on_refresh_callback
                                               THEN o.token_data ELSE NoResult,
                                      !.failed = _on_refresh_callback /\ ~o.callback_returned])
    /\ UNCHANGED <<rnow, _running, _thread, _stop_event, _loop_running,
                   _on_refresh_callback, caller, workers, ref_call>>

\* _refresh_token, finally: await oauth.close() returns or raises, and the
\* coroutine is over
_refresh_token_close(i, closed) ==
    /\ tasks[i].at = "closing"
    /\ tasks' = SetTask(i, Finished(tasks[i], tasks[i].failed \/ ~closed))
    /\ UNCHANGED <<settings, writer, rnow, _running, _thread, _stop_event, _loop_running,
                   _on_refresh_callback, caller, workers, ref_call>>

\* should_refresh_now without the test for a missing expiry
should_refresh_now_result_no_expiry_test(config, readable, t) ==
    IF ~readable THEN FALSE
    ELSE IF \/ config.auth_type # "oauth-iflow"
            \/ config.oauth_refresh_token = ""
    THEN FALSE
    ELSE is_token_expired(config.oauth_expires_at, refresh_buffer, t)

\* what should_refresh_now returns: False when load_iflow_config raises
\* (the except clause), False when the credential is not in delegated-OAuth
\* mode or lacks a refresh token or an expiry, else whether the expiry lies
\* within the buffer
should_refresh_now_result(config, readable, t) ==
    IF ~readable THEN FALSE
    ELSE IF \/ config.auth_type # "oauth-iflow"
            \/ config.oauth_refresh_token = ""
            \/ config.oauth_expires_at = NoExpiry
    THEN FALSE
    ELSE is_token_expired(config.oauth_expires_at, refresh_buffer, t)

\* should_refresh_now(), called from any thread
should_refresh_now(readable) ==
    /\ ref_call' = [op |-> "should_refresh_now",
                    effect |-> IF should_refresh_now_result(settings, readable, rnow)
                               THEN "true" ELSE "false",
                    readable |-> readable]
    /\ UNCHANGED <<settings, writer, rnow, _running, _thread, _stop_event, _loop_running,
                   _on_refresh_callback, caller, workers, tasks>>

\* what the owner of ~/.iflow/settings.json (the iFlow CLI, a new login) may
\* write into it while the gateway runs: another auth type, a new refresh
\* token, another model
OtherValues ==
    [auth_type |-> "api-key", oauth_refresh_token |-> "rt9", model_name |-> "m1"]

\* another process rewrites one field of the persisted settings
other_write(field) ==
    /\ settings[field] # OtherValues[field]
    /\ settings' = [settings EXCEPT ![field] = OtherValues[field]]
    /\ writer' = 0
    /\ UNCHANGED <<rnow, _running, _thread, _stop_event, _loop_running,
                   _on_refresh_callback, caller, workers, tasks, ref_call>>

\* one period passes
ref_tick ==
    /\ rnow + check_interval <= StartInstant + MaxPeriods * check_interval
    /\ rnow' = rnow + check_interval
    /\ UNCHANGED <<settings, writer, _running, _thread, _stop_event, _loop_running,
                   _on_refresh_callback, caller, workers, tasks, ref_call>>

\* ------------------------------------------------------------------------
\* The rate-limit middleware and the module-level limiter
\* ------------------------------------------------------------------------
\* number of requests the middleware handles in one behaviour
MaxRequests == 4

\* the instants of SpecMW: calls within one minute, and one minute later
MWInstants == {0, 30, 60}

VARIABLES
    _rate_limit_config, \* ratelimit._rate_limit_config: None or Some(config)
    _rate_limiter,      \* whether ratelimit._rate_limiter holds an instance;
                        \* its ledgers are _requests
    mw_call             \* the last request the middleware handled: its number,
                        \* the identity derived from it, whether the limiter
                        \* was consulted, and the response

mwVars == <<_rate_limit_config, _rate_limiter, mw_call>>

\* RateLimitConfig, with the limits the model's limiter is built with
RateLimitConfig(enabled) ==
    [enabled |-> enabled, requests_per_minute |-> per_minute,
     requests_per_hour |-> per_hour, requests_per_day |-> per_day]

\* a request as the middleware reads it: the Authorization header as its
\* first 20 characters and the rest (<<>>: no header), and the peer address
\* (<<>>: request.client is None)
Request(authorization, host) == [authorization |-> authorization, host |-> host]

Requests ==
    { Request(<<"a", "x">>, Some("b")), Request(<<"a", "y">>, None),
      Request(<<>>, Some("b")) }

\* the identity the middleware charges the request to (lines 266-272)
ClientId(request) ==
    IF request.authorization # <<>> THEN request.authorization[1]
    ELSE IF request.host # None THEN request.host[1]
    ELSE "unknown"

MWCall(n, client, checked, response) ==
    [n |-> n, client |-> client, checked |-> checked, response |-> response]

MWInit ==
    /\ _rate_limit_config = None
    /\ _rate_limiter = FALSE
    /\ mw_call = MWCall(0, "", FALSE, "none")

\* init_limiter(config): the configuration is installed; an enabled one
\* replaces the module-level limiter by a new instance (force_new)
init_limiter(config) ==
    /\ _rate_limit_config' = Some(config)
    /\ IF config.enabled
       THEN /\ _rate_limiter' = TRUE
            /\ _requests' = <<>>
            /\ admitted' = [c \in Clients |-> <<>>]
            /\ pure' = [c \in Clients |-> TRUE]
            /\ served' = <<>>
            /\ touched' = <<>>
            /\ rl_call' = RLCall("init", "", FALSE, <<>>, <<>>)
       ELSE UNCHANGED <<_rate_limiter, _requests, admitted, pure, served, touched,
                        rl_call>>
    /\ UNCHANGED <<now, mw_call>>

\* the middleware consulting the limiter whenever a configuration is installed
rate_limit_middleware_ignores_enabled(request) ==
    LET c == ClientId(request) IN
    /\ mw_call.n < MaxRequests
    /\ IF _rate_limit_config = None
       THEN /\ mw_call' = MWCall(mw_call.n + 1, c, FALSE, "call_next")
            /\ UNCHANGED <<_requests, now, rl_call, admitted, pure, served, touched,
                           _rate_limiter>>
       ELSE /\ is_allowed(c)
            /\ _rate_limiter' = TRUE
            /\ mw_call' = MWCall(mw_call.n + 1, c, TRUE,
                                 IF rl_call'.allowed THEN "call_next" ELSE "429")
    /\ UNCHANGED _rate_limit_config

\* rate_limit_middleware(request, call_next): without an enabled
\* configuration the request goes to call_next; else check_rate_limit charges
\* it to the identity on the module-level limiter (created on first use) and
\* the request goes to call_next or is answered 429
rate_limit_middleware(request) ==
    LET c == ClientId(request) IN
    /\ mw_call.n < MaxRequests
    /\ IF _rate_limit_config = None \/ ~_rate_limit_config[1].enabled
       THEN /\ mw_call' = MWCall(mw_call.n + 1, c, FALSE, "call_next")
            /\ UNCHANGED <<_requests, now, rl_call, admitted, pure, served, touched,
                           _rate_limiter>>
       ELSE /\ is_allowed(c)
            /\ _rate_limiter' = TRUE
            /\ mw_call' = MWCall(mw_call.n + 1, c, TRUE,
                                 IF rl_call'.allowed THEN "call_next" ELSE "429")
    /\ UNCHANGED _rate_limit_config

mw_tick(t) ==
    /\ rl_tick(t)
    /\ UNCHANGED mwVars

\* ------------------------------------------------------------------------
\* The stored hash as a string
\* ------------------------------------------------------------------------
\* the passwords and the salts (secrets.token_bytes(32)) of SpecHash
HashPasswords == {"p1", "p2", "p3", "p4"}
HashSalts == {<<"salt", 1>>, <<"salt", 2>>, <<"salt", 3>>}

VARIABLES
    hp      \* the last call of _hash_password or _verify_password: the password
            \* hashed, the stored string (what happened to it since), the
            \* password tried against it and the result

hpVars == <<hp>>

\* a string is the sequence of its fields between ":"; a field is the hex
\* text of some bytes (bytes.hex(), hexdigest()) or a text that is no hex
Hex(b) == [hex |-> TRUE, bytes |-> b]
Text(t) == [hex |-> FALSE, bytes |-> <<t>>]

\* _HASH_PREFIX = "pbkdf2:"
_HASH_PREFIX == Text("pbkdf2")

\* _hash_password: f"{_HASH_PREFIX}{salt.hex()}:{dk.hex()}"
_hash_password_string(password, salt) ==
    <<_HASH_PREFIX, Hex(salt), Hex(PBKDF2(password, salt))>>

\* stored_hash.startswith(_HASH_PREFIX)
StartsWithPrefix(stored_hash) ==
    Len(stored_hash) >= 2 /\ stored_hash[1] = _HASH_PREFIX

\* _verify_password without the try/except around the parsing
_verify_password_string_uncaught(password, stored_hash) ==
    IF StartsWithPrefix(stored_hash)
    THEN IF Len(stored_hash) # 3 THEN "raise"
         ELSE IF ~stored_hash[2].hex \/ ~stored_hash[3].hex THEN "raise"
         ELSE IF PBKDF2(password, stored_hash[2].bytes) = stored_hash[3].bytes
              THEN "true" ELSE "false"
    ELSE IF stored_hash = <<Hex(SHA256(password))>> THEN "true" ELSE "false"

\* _verify_password on the string: with the prefix, the split into three
\* fields and the two bytes.fromhex raise ValueError on a malformed string,
\* which the except clause turns into False; without the prefix the string
\* is compared with the bare SHA-256 digest
_verify_password_string(password, stored_hash) ==
    IF StartsWithPrefix(stored_hash)
    THEN IF Len(stored_hash) # 3 THEN "false"
         ELSE IF ~stored_hash[2].hex \/ ~stored_hash[3].hex THEN "false"
         ELSE IF PBKDF2(password, stored_hash[2].bytes) = stored_hash[3].bytes
              THEN "true" ELSE "false"
    ELSE IF stored_hash = <<Hex(SHA256(password))>> THEN "true" ELSE "false"

\* the ways a stored string with the prefix is malformed: a field missing,
\* a field too many, a salt or a digest that is no hex text
Damages == {"two_fields", "four_fields", "salt_not_hex", "digest_not_hex"}

Damage(kind, stored_hash) ==
    IF kind = "two_fields" THEN SubSeq(stored_hash, 1, 2)
    ELSE IF kind = "four_fields" THEN Append(stored_hash, stored_hash[3])
    ELSE IF kind = "salt_not_hex" THEN [stored_hash EXCEPT ![2] = Text("zz")]
    ELSE [stored_hash EXCEPT ![3] = Text("zz")]

HashCall(op, origin, damage, stored_hash, tried, result) ==
    [op |-> op, origin |-> origin, damage |-> damage, stored_hash |-> stored_hash,
     tried |-> tried, result |-> result]

HashInit == hp = HashCall("init", "", "none", <<>>, "", "none")

\* _hash_password(password) drawing `salt`
hash_password(password, salt) ==
    hp' = HashCall("_hash_password", password, "none",
                   _hash_password_string(password, salt), "", "none")

\* the stored string gets malformed (a truncated or hand-edited user store)
damage_stored(kind) ==
    /\ hp.op = "_hash_password"
    /\ hp' = [hp EXCEPT !.op = "damage", !.damage = kind,
                        !.stored_hash = Damage(kind, hp.stored_hash)]

\* _verify_password(password, stored_hash) on the string at hand
verify_password(password) ==
    /\ hp.op # "init"
    /\ hp' = [hp EXCEPT !.op = "_verify_password", !.tried = password,
                        !.result = _verify_password_string(password, hp.stored_hash)]

\* ------------------------------------------------------------------------
\* Specifications
\* ------------------------------------------------------------------------
vars == <<authVars, fsVars, rlVars, concVars, refVars, acVars, mwVars, hpVars, cuVars,
         vtVars>>

Init == AuthInit /\ RLInit /\ ConcInit /\ RefInit /\ AuthConcInit /\ MWInit /\ HashInit /\ CreateConcInit
    /\ VerifyConcInit

CreateUser ==
    /\ \E u \in Usernames, p \in Passwords : create_user(u, p)
    /\ UNCHANGED <<rlVars, concVars, refVars, acVars, mwVars, fsVars, hpVars, cuVars, vtVars>>
DeleteUser ==
    /\ \E u \in Usernames : delete_user(u)
    /\ UNCHANGED <<rlVars, concVars, refVars, acVars, mwVars, fsVars, hpVars, cuVars, vtVars>>
ChangePassword ==
    /\ \E u \in Usernames, old \in Passwords, new \in Passwords :
          change_password(u, old, new)
    /\ UNCHANGED <<rlVars, concVars, refVars, acVars, mwVars, fsVars, hpVars, cuVars, vtVars>>
Authenticate ==
    /\ \E u \in Usernames, p \in Passwords : authenticate(u, p)
    /\ UNCHANGED <<rlVars, concVars, refVars, acVars, mwVars, fsVars, hpVars, cuVars, vtVars>>
VerifyToken ==
    /\ \E t \in TokenInputs : verify_token(t)
    /\ UNCHANGED <<rlVars, concVars, refVars, acVars, mwVars, fsVars, hpVars, cuVars, vtVars>>
Logout ==
    /\ \E t \in TokenInputs : logout(t)
    /\ UNCHANGED <<rlVars, concVars, refVars, acVars, mwVars, fsVars, hpVars, cuVars, vtVars>>
AuthTick ==
    /\ auth_tick
    /\ UNCHANGED <<rlVars, concVars, refVars, acVars, mwVars, fsVars, hpVars, cuVars, vtVars>>

Next ==
    \/ CreateUser
    \/ DeleteUser
    \/ ChangePassword
    \/ Authenticate
    \/ VerifyToken
    \/ Logout
    \/ AuthTick

\* the auth manager, calls one at a time
Spec == Init /\ [][Next]_vars

StoreFault ==
    /\ store_fault
    /\ UNCHANGED <<rlVars, concVars, refVars, acVars, mwVars, fsVars, hpVars, cuVars, vtVars>>

NextFault ==
    \/ CreateUser
    \/ DeleteUser
    \/ ChangePassword
    \/ Authenticate
    \/ VerifyToken
    \/ StoreFault

\* the auth manager over a user store whose writes may fail
SpecFault == Init /\ [][NextFault]_vars

InitStore ==
    /\ \E data \in LegacyStores, file \in SecretFiles : AuthInitFrom(data, file)
    /\ RLInit /\ ConcInit /\ RefInit /\ AuthConcInit /\ MWInit /\ HashInit /\ CreateConcInit
    /\ VerifyConcInit

NextStore ==
    \/ CreateUser
    \/ DeleteUser
    \/ ChangePassword
    \/ Authenticate

\* the auth manager constructed over a user store that an older version
\* left behind with a signing secret in it, and the calls that write the
\* user store
SpecStore == InitStore /\ [][NextStore]_vars

InitLoad ==
    /\ \E file \in StoreFiles : AuthInitOver(file)
    /\ RLInit /\ ConcInit /\ RefInit /\ AuthConcInit /\ MWInit /\ HashInit /\ CreateConcInit
    /\ VerifyConcInit

\* the auth manager constructed over every user store file, sound or
\* damaged, and the calls that write the user store afterwards
SpecLoad == InitLoad /\ [][NextStore]_vars

HashPassword ==
    /\ \E p \in HashPasswords, salt \in HashSalts : hash_password(p, salt)
    /\ UNCHANGED <<authVars, fsVars, rlVars, concVars, refVars, acVars, mwVars, cuVars, vtVars>>
DamageStored ==
    /\ \E kind \in Damages : damage_stored(kind)
    /\ UNCHANGED <<authVars, fsVars, rlVars, concVars, refVars, acVars, mwVars, cuVars, vtVars>>
VerifyPassword ==
    /\ \E p \in HashPasswords : verify_password(p)
    /\ UNCHANGED <<authVars, fsVars, rlVars, concVars, refVars, acVars, mwVars, cuVars, vtVars>>

NextHash ==
    \/ HashPassword
    \/ DamageStored
    \/ VerifyPassword

\* _hash_password and _verify_password as functions of strings
SpecHash == Init /\ [][NextHash]_vars

AuthenticateVerify ==
    /\ \E t \in AuthThreads, u \in Usernames, p \in Passwords : authenticate_verify(t, u, p)
    /\ UNCHANGED <<rlVars, concVars, refVars, mwVars, fsVars, hpVars, cuVars, vtVars>>
AuthenticateSave ==
    /\ \E t \in AuthThreads : authenticate_save(t)
    /\ UNCHANGED <<rlVars, concVars, refVars, mwVars, fsVars, hpVars, cuVars, vtVars>>
AuthenticateMint ==
    /\ \E t \in AuthThreads : authenticate_mint(t)
    /\ UNCHANGED <<rlVars, concVars, refVars, mwVars, fsVars, hpVars, cuVars, vtVars>>
ConcChangePassword ==
    /\ \E u \in Usernames, old \in Passwords, new \in Passwords :
          change_password(u, old, new)
    /\ Overtake
    /\ UNCHANGED <<auth_pc, rlVars, concVars, refVars, mwVars, fsVars, hpVars, cuVars, vtVars>>
ConcDeleteUser ==
    /\ \E u \in Usernames : delete_user(u)
    /\ Overtake
    /\ UNCHANGED <<auth_pc, rlVars, concVars, refVars, mwVars, fsVars, hpVars, cuVars, vtVars>>
ConcVerifyToken ==
    /\ \E t \in DOMAIN issued : verify_token(t)
    /\ UNCHANGED <<rlVars, concVars, refVars, acVars, mwVars, fsVars, hpVars, cuVars, vtVars>>

NextAuthConc ==
    \/ AuthenticateVerify
    \/ AuthenticateSave
    \/ AuthenticateMint
    \/ ConcChangePassword
    \/ ConcDeleteUser
    \/ ConcVerifyToken

\* authenticate calls of two threads interleaved with change_password,
\* delete_user and verify_token, over a store that holds one user
InitAuthConc == Init /\ users # EmptyMap

SpecAuthConc == InitAuthConc /\ [][NextAuthConc]_vars

CreateUserCheck ==
    /\ \E t \in AuthThreads, u \in Usernames, p \in Passwords : create_user_check(t, u, p)
    /\ UNCHANGED <<fsVars, rlVars, concVars, refVars, acVars, mwVars, hpVars, vtVars>>
CreateUserStore ==
    /\ \E t \in AuthThreads : create_user_store(t)
    /\ UNCHANGED <<fsVars, rlVars, concVars, refVars, acVars, mwVars, hpVars, vtVars>>
CreateUserSave ==
    /\ \E t \in AuthThreads : create_user_save(t)
    /\ UNCHANGED <<fsVars, rlVars, concVars, refVars, acVars, mwVars, hpVars, vtVars>>

NextCreateConc ==
    \/ CreateUserCheck
    \/ CreateUserStore
    \/ CreateUserSave

\* one create_user call in each of two threads, interleaved at its
\* statements, over an empty store and over a store that holds one user
SpecCreateConc == Init /\ [][NextCreateConc]_vars

VerifyTokenCheck ==
    /\ \E t \in AuthThreads, token \in DOMAIN issued : verify_token_check(t, token)
    /\ UNCHANGED <<fsVars, rlVars, concVars, refVars, acVars, mwVars, hpVars, cuVars>>
VerifyTokenRead ==
    /\ \E t \in AuthThreads : verify_token_read(t)
    /\ UNCHANGED <<fsVars, rlVars, concVars, refVars, acVars, mwVars, hpVars, cuVars>>
VerifyTokenExpiry ==
    /\ \E t \in AuthThreads : verify_token_expiry(t)
    /\ UNCHANGED <<fsVars, rlVars, concVars, refVars, acVars, mwVars, hpVars, cuVars>>

NextVerifyConc ==
    \/ VerifyTokenCheck
    \/ VerifyTokenRead
    \/ VerifyTokenExpiry
    \/ Authenticate
    \/ Logout
    \/ ChangePassword
    \/ DeleteUser
    \/ AuthTick

\* verify_token calls of two threads interleaved at their statements with
\* each other and with whole calls of authenticate, logout, change_password
\* and delete_user, over a store that holds one user
SpecVerifyConc == InitAuthConc /\ [][NextVerifyConc]_vars

IsAllowed ==
    /\ \E c \in TierClients : is_allowed(c)
    /\ UNCHANGED <<authVars, concVars, refVars, acVars, mwVars, fsVars, hpVars, cuVars, vtVars>>
RecordRequest ==
    /\ \E c \in TierClients : record_request(c)
    /\ UNCHANGED <<authVars, concVars, refVars, acVars, mwVars, fsVars, hpVars, cuVars, vtVars>>
GetStats ==
    /\ \E c \in TierClients : get_stats(c)
    /\ UNCHANGED <<authVars, concVars, refVars, acVars, mwVars, fsVars, hpVars, cuVars, vtVars>>
Reset ==
    /\ \E c \in TierClients \cup {""} : reset(c)
    /\ UNCHANGED <<authVars, concVars, refVars, acVars, mwVars, fsVars, hpVars, cuVars, vtVars>>
RLTick ==
    /\ \E t \in Instants : rl_tick(t)
    /\ UNCHANGED <<authVars, concVars, refVars, acVars, mwVars, fsVars, hpVars, cuVars, vtVars>>

NextRL ==
    \/ IsAllowed
    \/ RecordRequest
    \/ GetStats
    \/ Reset
    \/ RLTick

\* the rate limiter serving one identity over two days, calls one at a time
SpecRL == Init /\ [][NextRL]_vars

LRUIsAllowed ==
    /\ \E c \in Clients : is_allowed(c)
    /\ UNCHANGED <<authVars, concVars, refVars, acVars, mwVars, fsVars, hpVars, cuVars, vtVars>>
LRURecordRequest ==
    /\ \E c \in Clients : record_request(c)
    /\ UNCHANGED <<authVars, concVars, refVars, acVars, mwVars, fsVars, hpVars, cuVars, vtVars>>
LRUGetStats ==
    /\ \E c \in Clients : get_stats(c)
    /\ UNCHANGED <<authVars, concVars, refVars, acVars, mwVars, fsVars, hpVars, cuVars, vtVars>>
LRUReset ==
    /\ \E c \in Clients \cup {""} : reset(c)
    /\ UNCHANGED <<authVars, concVars, refVars, acVars, mwVars, fsVars, hpVars, cuVars, vtVars>>
LRUTick ==
    /\ \E t \in LRUInstants : rl_tick(t)
    /\ UNCHANGED <<authVars, concVars, refVars, acVars, mwVars, fsVars, hpVars, cuVars, vtVars>>

NextLRU ==
    \/ LRUIsAllowed
    \/ LRURecordRequest
    \/ LRUGetStats
    \/ LRUReset
    \/ LRUTick

\* the rate limiter serving more identities than it tracks, calls one at a time
SpecLRU == Init /\ [][NextLRU]_vars

InitLimiter ==
    /\ \E enabled \in BOOLEAN : init_limiter(RateLimitConfig(enabled))
    /\ UNCHANGED <<authVars, concVars, refVars, acVars, fsVars, hpVars, cuVars, vtVars>>
RateLimitMiddleware ==
    /\ \E request \in Requests : rate_limit_middleware(request)
    /\ UNCHANGED <<authVars, concVars, refVars, acVars, fsVars, hpVars, cuVars, vtVars>>
MWTick ==
    /\ \E t \in MWInstants : mw_tick(t)
    /\ UNCHANGED <<authVars, concVars, refVars, acVars, fsVars, hpVars, cuVars, vtVars>>

NextMW ==
    \/ InitLimiter
    \/ RateLimitMiddleware
    \/ MWTick

\* requests through the middleware while configurations are installed
SpecMW == Init /\ [][NextMW]_vars

Acquire ==
    /\ \E t \in Threads, c \in TierClients : acquire(t, c)
    /\ UNCHANGED <<authVars, refVars, acVars, mwVars, fsVars, hpVars, cuVars, vtVars>>
Get ==
    /\ \E t \in Threads : get(t)
    /\ UNCHANGED <<authVars, refVars, acVars, mwVars, fsVars, hpVars, cuVars, vtVars>>
Check ==
    /\ \E t \in Threads : check(t)
    /\ UNCHANGED <<authVars, refVars, acVars, mwVars, fsVars, hpVars, cuVars, vtVars>>
Record ==
    /\ \E t \in Threads : record(t)
    /\ UNCHANGED <<authVars, refVars, acVars, mwVars, fsVars, hpVars, cuVars, vtVars>>
Release ==
    /\ \E t \in Threads : release(t)
    /\ UNCHANGED <<authVars, refVars, acVars, mwVars, fsVars, hpVars, cuVars, vtVars>>
ConcTick ==
    /\ \E t \in Instants : rl_tick(t)
    /\ UNCHANGED <<authVars, concVars, refVars, acVars, mwVars, fsVars, hpVars, cuVars, vtVars>>

NextRLConc ==
    \/ Acquire
    \/ Get
    \/ Check
    \/ Record
    \/ Release
    \/ ConcTick

\* concurrent is_allowed calls for one identity, one statement at a time
SpecRLConc == Init /\ [][NextRLConc]_vars

\* the calls and steps of the refresher, the other components standing still
Start ==
    /\ start
    /\ UNCHANGED <<authVars, rlVars, concVars, acVars, mwVars, fsVars, hpVars, cuVars, vtVars>>
StartOnce ==
    /\ _running \/ workers = <<>>
    /\ start
    /\ UNCHANGED <<authVars, rlVars, concVars, acVars, mwVars, fsVars, hpVars, cuVars, vtVars>>
Stop ==
    /\ stop
    /\ UNCHANGED <<authVars, rlVars, concVars, acVars, mwVars, fsVars, hpVars, cuVars, vtVars>>
Join ==
    /\ join
    /\ UNCHANGED <<authVars, rlVars, concVars, acVars, mwVars, fsVars, hpVars, cuVars, vtVars>>
RunLoopWhile ==
    /\ \E w \in DOMAIN workers : _run_loop_while(w)
    /\ UNCHANGED <<authVars, rlVars, concVars, acVars, mwVars, fsVars, hpVars, cuVars, vtVars>>
RunLoopCycle ==
    /\ \E w \in DOMAIN workers, readable \in BOOLEAN : _run_loop_cycle(w, readable)
    /\ UNCHANGED <<authVars, rlVars, concVars, acVars, mwVars, fsVars, hpVars, cuVars, vtVars>>
RunLoopWait ==
    /\ \E w \in DOMAIN workers : _run_loop_wait(w)
    /\ UNCHANGED <<authVars, rlVars, concVars, acVars, mwVars, fsVars, hpVars, cuVars, vtVars>>
ScheduleRefreshDone ==
    /\ \E w \in DOMAIN workers : _schedule_refresh_done(w)
    /\ UNCHANGED <<authVars, rlVars, concVars, acVars, mwVars, fsVars, hpVars, cuVars, vtVars>>
ScheduleRefreshTimeout ==
    /\ \E w \in DOMAIN workers : _schedule_refresh_timeout(w)
    /\ UNCHANGED <<authVars, rlVars, concVars, acVars, mwVars, fsVars, hpVars, cuVars, vtVars>>
RefreshTokenExchange ==
    /\ \E i \in DOMAIN tasks : _refresh_token_exchange(i)
    /\ UNCHANGED <<authVars, rlVars, concVars, acVars, mwVars, fsVars, hpVars, cuVars, vtVars>>
RefreshTokenResume ==
    /\ \E i \in DOMAIN tasks : \E o \in Outcomes(i, rnow) : _refresh_token_resume(i, o)
    /\ UNCHANGED <<authVars, rlVars, concVars, acVars, mwVars, fsVars, hpVars, cuVars, vtVars>>
RefreshTokenClose ==
    /\ \E i \in DOMAIN tasks, closed \in BOOLEAN : _refresh_token_close(i, closed)
    /\ UNCHANGED <<authVars, rlVars, concVars, acVars, mwVars, fsVars, hpVars, cuVars, vtVars>>
RefTick ==
    /\ ref_tick
    /\ UNCHANGED <<authVars, rlVars, concVars, acVars, mwVars, fsVars, hpVars, cuVars, vtVars>>

NextRefresher ==
    \/ StartOnce
    \/ Stop
    \/ Join
    \/ RunLoopWhile
    \/ RunLoopCycle
    \/ RunLoopWait
    \/ ScheduleRefreshDone
    \/ ScheduleRefreshTimeout
    \/ RefreshTokenExchange
    \/ RefreshTokenResume
    \/ RefreshTokenClose
    \/ RefTick

InitRefresher ==
    /\ AuthInit /\ users = EmptyMap /\ RLInit /\ ConcInit /\ AuthConcInit /\ MWInit /\ HashInit /\ CreateConcInit
    /\ VerifyConcInit
    /\ RefInitAny

\* one run of the refresher from start() to stop(): its worker thread, its
\* coroutines and the thread calling start() and stop(), one statement at a
\* time, over every initial credential
SpecRefresher == InitRefresher /\ [][NextRefresher]_vars

\* the threads run: a worker that can take a step of _run_loop eventually
\* takes it, and the caller of stop() leaves the join once the worker has
\* ended or the join timeout has passed
FairSpecRefresher ==
    /\ SpecRefresher
    /\ WF_vars(RunLoopWhile \/ RunLoopCycle \/ RunLoopWait \/ ScheduleRefreshDone)
    /\ WF_vars(Join)

\* future.result(timeout=30) comes back: with the coroutine over, or when
\* the 30 seconds have passed; the main loop itself may never run the
\* coroutine
FairSpecHandoff ==
    /\ SpecRefresher
    /\ WF_vars(ScheduleRefreshDone \/ ScheduleRefreshTimeout)

\* the steps of a cycle in which nothing but the exchange fails
RestartCycle ==
    /\ \E w \in DOMAIN workers : _run_loop_cycle(w, TRUE)
    /\ UNCHANGED <<authVars, rlVars, concVars, acVars, mwVars, fsVars, hpVars, cuVars, vtVars>>
RestartResume ==
    /\ \E i \in DOMAIN tasks :
          \E o \in { Outcome(FALSE, NoResult, FALSE, FALSE),
                     Outcome(TRUE, [access_token |-> i, refresh_token |-> "",
                                    expires_at |-> rnow + AccessLifetime], TRUE, TRUE) } :
             _refresh_token_resume(i, o)
    /\ UNCHANGED <<authVars, rlVars, concVars, acVars, mwVars, fsVars, hpVars, cuVars, vtVars>>
RestartClose ==
    /\ \E i \in DOMAIN tasks : _refresh_token_close(i, TRUE)
    /\ UNCHANGED <<authVars, rlVars, concVars, acVars, mwVars, fsVars, hpVars, cuVars, vtVars>>

NextRestart ==
    \/ Start
    \/ Stop
    \/ Join
    \/ RunLoopWhile
    \/ RestartCycle
    \/ RunLoopWait
    \/ ScheduleRefreshDone
    \/ ScheduleRefreshTimeout
    \/ RefreshTokenExchange
    \/ RestartResume
    \/ RestartClose

InitRestart ==
    /\ AuthInit /\ users = EmptyMap /\ RLInit /\ ConcInit /\ AuthConcInit /\ MWInit /\ HashInit /\ CreateConcInit
    /\ VerifyConcInit
    /\ \E loop \in BOOLEAN : RefInitWith(Credential("oauth-iflow", 0, "rt0", StartInstant + refresh_buffer), loop, TRUE)

\* the refresher started and stopped repeatedly within one period, with a
\* credential that is due for a refresh
SpecRestart == InitRestart /\ [][NextRestart]_vars

ShouldRefreshNow ==
    /\ \E readable \in BOOLEAN : should_refresh_now(readable)
    /\ UNCHANGED <<authVars, rlVars, concVars, acVars, mwVars, fsVars, hpVars, cuVars, vtVars>>

NextDiag ==
    \/ ShouldRefreshNow
    \/ StartOnce
    \/ Stop
    \/ Join
    \/ RunLoopWhile
    \/ RestartCycle
    \/ RunLoopWait
    \/ ScheduleRefreshDone
    \/ RefreshTokenExchange
    \/ RestartResume
    \/ RestartClose
    \/ RefTick

\* should_refresh_now called at any moment of a refresher that is started
\* once, over every initial credential
SpecDiag == InitRefresher /\ [][NextDiag]_vars

OtherWrite ==
    /\ \E field \in DOMAIN OtherValues : other_write(field)
    /\ UNCHANGED <<authVars, rlVars, concVars, acVars, mwVars, fsVars, hpVars, cuVars, vtVars>>

NextShared ==
    \/ OtherWrite
    \/ StartOnce
    \/ Stop
    \/ Join
    \/ RunLoopWhile
    \/ RestartCycle
    \/ RunLoopWait
    \/ ScheduleRefreshDone
    \/ RefreshTokenExchange
    \/ RestartResume
    \/ RestartClose
    \/ RefTick

\* the refresher started once over a due credential, no handoff timing out,
\* while another process writes the settings file
SpecShared == InitRestart /\ [][NextShared]_vars

MalformedResume ==
    /\ \E i \in DOMAIN tasks :
          \E d \in ResultsWithoutAccessToken(rnow) \cup ExchangeResults(i, rnow) :
             _refresh_token_resume(i, Outcome(TRUE, d, TRUE, TRUE))
    /\ UNCHANGED <<authVars, rlVars, concVars, acVars, mwVars, fsVars, hpVars, cuVars, vtVars>>

NextMalformed ==
    \/ MalformedResume
    \/ StartOnce
    \/ Stop
    \/ Join
    \/ RunLoopWhile
    \/ RestartCycle
    \/ RunLoopWait
    \/ ScheduleRefreshDone
    \/ RefreshTokenExchange
    \/ RestartClose
    \/ RefTick

\* the refresher started once over a due credential, with an exchange that
\* may answer without an access token
SpecMalformed == InitRestart /\ [][NextMalformed]_vars


\* ------------------------------------------------------------------------
\* Properties of the auth manager (checked under Spec)
\* ------------------------------------------------------------------------
\* the password a stored hash was derived from
PasswordOf(stored_hash) == stored_hash.dk[2]

\* C1: every token authenticate returned is accepted by verify_token, with
\* the authenticated username, from its issuance up to and including its
\* expiry unless a logout, change_password or delete_user hit it; past its
\* expiry it is rejected; once revoked (logout included) it is rejected even
\* before its expiry.
C1_TokenLifecycle ==
    \A t \in DOMAIN issued :
        /\ (t \notin revoked /\ clock <= issued[t].exp)
               => verify_token_result(t) = issued[t].username
        /\ clock > issued[t].exp => verify_token_result(t) = "none"
        /\ t \in revoked => verify_token_result(t) = "none"
        /\ (call.op = "authenticate" /\ call.ret = "token")
               => /\ call.token \in DOMAIN issued
                  /\ verify_token_result(call.token) = call.username
        /\ (call.op = "verify_token" /\ call.token = t)
               => call.ret = (IF t \notin revoked /\ clock <= issued[t].exp
                              THEN issued[t].username ELSE "none")

\* a verification that succeeds exactly at the expiry instant, while another
\* token was logged out before its expiry
C1_Witness ==
    \E t1 \in DOMAIN issued, t2 \in DOMAIN issued :
        /\ call.op = "verify_token" /\ call.token = t1 /\ call.ret = issued[t1].username
        /\ clock = issued[t1].exp
        /\ t2 \in revoked /\ clock <= issued[t2].exp /\ t2 \notin DOMAIN active_tokens

\* C2: verify_token returns a username only for a token that authenticate
\* returned earlier and that is neither revoked nor expired; a token string
\* with a correct signature that was never issued or was revoked is rejected.
C2_PresenceInMemory ==
    /\ \A t \in TokenInputs :
          /\ verify_token_result(t) # "none"
                => /\ t \in DOMAIN issued
                   /\ t \notin revoked
                   /\ clock <= issued[t].exp
                   /\ verify_token_result(t) = issued[t].username
          /\ (SignatureVerifies(t, jwt_secret) /\ (t \notin DOMAIN issued \/ t \in revoked))
                => verify_token_result(t) = "none"
    /\ (call.op = "verify_token" /\ call.ret # "none")
          => /\ call.token \in DOMAIN issued
             /\ call.token \notin revoked
             /\ clock <= issued[call.token].exp
             /\ call.ret = issued[call.token].username

\* a never-issued token with a correct signature was presented and rejected
\* while a revoked token with a correct signature exists
C2_Witness ==
    /\ call.op = "verify_token" /\ call.ret = "none"
    /\ call.token \in ForgedTokens /\ call.token \notin DOMAIN issued
    /\ SignatureVerifies(call.token, jwt_secret)
    /\ call.token.username \in DOMAIN users
    /\ \E t \in revoked : SignatureVerifies(t, jwt_secret) /\ clock <= issued[t].exp

\* C3: when change_password returns true, every token issued for that user
\* before the call is rejected afterwards, and every token of every other user
\* is accepted or rejected exactly as before the call.
C3_ChangePasswordRevokes ==
    [][(call'.op = "change_password" /\ call'.ret = "true")
          => \A t \in DOMAIN issued :
                IF issued[t].username = call'.username
                THEN verify_token_result(t)' = "none"
                ELSE verify_token_result(t)' = verify_token_result(t)]_vars

\* change_password went through while the user and another user each held a
\* valid token: the user's token is gone, the other's is still accepted
C3_Witness ==
    /\ call.op = "change_password" /\ call.ret = "true"
    /\ \E t1 \in DOMAIN issued, t2 \in DOMAIN issued :
          /\ issued[t1].username = call.username
          /\ clock <= issued[t1].exp
          /\ t1 \notin DOMAIN active_tokens
          /\ issued[t2].username # call.username
          /\ verify_token_result(t2) = issued[t2].username

\* C4: change_password with an unknown username, or with an old password that
\* is not the user's password, returns false and leaves the user map, the
\* active-token map and the persisted user store unchanged.
C4_ChangePasswordFails ==
    [][\A u \in Usernames, old \in Passwords, new \in Passwords :
          (/\ call'.op = "change_password"
           /\ call'.username = u
           /\ (u \notin DOMAIN users \/ PasswordOf(users[u].password_hash) # old)
           /\ change_password(u, old, new))
          => /\ call'.ret = "false"
             /\ users' = users
             /\ active_tokens' = active_tokens
             /\ disk' = disk]_vars

\* change_password was refused for an existing user who holds a valid token
C4_Witness ==
    /\ call.op = "change_password" /\ call.ret = "false"
    /\ call.username \in DOMAIN users
    /\ \E t \in DOMAIN active_tokens : active_tokens[t].username = call.username
    /\ disk = Serialize(users)

\* every record of the active-token map names a user of the user map
TokensNameUsers ==
    \A t \in DOMAIN active_tokens : active_tokens[t].username \in DOMAIN users

\* C5: delete_user on an existing user removes the user and all of the user's
\* tokens, so every record of the active-token map names a present user after
\* any sequence of calls; delete_user on an unknown username returns false and
\* changes nothing.
C5_DeleteUserCascades ==
    /\ []TokensNameUsers
    /\ [][call'.op = "delete_user"
            => IF call'.username \in DOMAIN users
               THEN /\ call'.ret = "true"
                    /\ call'.username \notin DOMAIN users'
                    /\ TokensOf(active_tokens', call'.username) = {}
                    /\ \A t \in TokensOf(issued, call'.username) :
                          verify_token_result(t)' = "none"
               ELSE /\ call'.ret = "false"
                    /\ users' = users
                    /\ active_tokens' = active_tokens
                    /\ disk' = disk]_vars

\* a user who held a valid token was deleted while another user keeps one
C5_Witness ==
    /\ call.op = "delete_user" /\ call.ret = "true"
    /\ \E t \in DOMAIN issued :
          /\ issued[t].username = call.username
          /\ clock <= issued[t].exp
          /\ t \in revoked
    /\ active_tokens # EmptyMap

\* C6: create_user returns false when the username exists and then leaves the
\* existing record and all tokens unchanged; it returns true only when the
\* username was absent, after which the user is present and authenticate with
\* the same username and password succeeds.
C6_CreateUser ==
    [][/\ call'.op = "create_user"
          => /\ call'.username \in DOMAIN users
                  => /\ call'.ret = "false"
                     /\ users' = users
                     /\ active_tokens' = active_tokens
                     /\ disk' = disk
             /\ call'.ret = "false" => call'.username \in DOMAIN users
             /\ call'.ret = "true"
                  => /\ call'.username \notin DOMAIN users
                     /\ call'.username \in DOMAIN users'
                     /\ \A u \in Usernames, p \in Passwords :
                           (u = call'.username /\ p = call'.password)
                              => authenticate_result(u, p)' = "token"
       /\ (/\ call.op = "create_user" /\ call.ret = "true"
           /\ authenticate(call.username, call.password))
          => /\ call'.ret = "token"
             /\ \A t \in DOMAIN issued' :
                   t = call'.token => verify_token_result(t)' = call.username]_vars

\* a second user was created while the first one holds a token
C6_Witness ==
    /\ call.op = "create_user" /\ call.ret = "true"
    /\ DOMAIN users = Usernames
    /\ active_tokens # EmptyMap
    /\ users[call.username].last_login = None

\* ------------------------------------------------------------------------
\* Properties of the rate limiter
\* ------------------------------------------------------------------------
\* the admitted calls of client c whose timestamps lie in the trailing w seconds
AdmittedWithin(c, w) == CountAfter(admitted[c], now - w)

\* C7 (SpecRLConc): under any interleaving of concurrent is_allowed calls for
\* one identity, the admitted calls with timestamps in the trailing 60 s,
\* 3600 s and 86400 s never number more than per_minute, per_hour and per_day.
C7_NoOverAdmission ==
    \A c \in TierClients :
        /\ AdmittedWithin(c, MINUTE) <= per_minute
        /\ AdmittedWithin(c, HOUR) <= per_hour
        /\ AdmittedWithin(c, DAY) <= per_day

\* a thread has just taken the last free slot of the minute and still holds
\* the lock, the other thread is outside the lock
C7_Witness ==
    \E t1 \in Threads, t2 \in Threads :
        /\ t1 # t2
        /\ lock = t1 /\ pc[t1] = "return" /\ local[t1].tier = "none"
        /\ pc[t2] = "idle"
        /\ AdmittedWithin(local[t1].client, MINUTE) = per_minute
        /\ rl_call.op = "is_allowed" /\ rl_call.allowed

\* C8 (SpecRL): for an identity driven by is_allowed alone, a call made while
\* per_minute admitted calls lie in the trailing 60 s is rejected with the
\* per-minute reason, and a call made while all three trailing counts are
\* under their limits is admitted, however often it was rejected before.
C8_MinuteWindowSlides ==
    [][\A c \in TierClients :
          (rl_call'.op = "is_allowed" /\ rl_call'.client = c /\ pure[c])
          => /\ AdmittedWithin(c, MINUTE) >= per_minute
                  => /\ ~ rl_call'.allowed
                     /\ rl_call'.reason = <<per_minute, "minute">>
             /\ (/\ AdmittedWithin(c, MINUTE) < per_minute
                 /\ AdmittedWithin(c, HOUR) < per_hour
                 /\ AdmittedWithin(c, DAY) < per_day)
                  => /\ rl_call'.allowed
                     /\ rl_call'.reason = <<>>]_vars

\* the identity is admitted once more than per_minute times: the last time
\* after the minute window had filled up and moved on
C8_Witness ==
    /\ rl_call.op = "is_allowed" /\ rl_call.allowed /\ rl_call.client = "a"
    /\ pure["a"]
    /\ Len(admitted["a"]) = per_minute + 1
    /\ admitted["a"][per_minute] > admitted["a"][1]
    /\ now - admitted["a"][1] >= MINUTE
    /\ now - admitted["a"][1] < HOUR

\* C9 (SpecRL): a rejection names the narrowest exceeded tier: minute whenever
\* the minute count is at or over per_minute, hour exactly when the minute
\* count is under and the hour count at or over its limit, day exactly when
\* both narrower counts are under and the day count at or over its limit.
C9_NarrowestTier ==
    [][\A c \in TierClients :
          (rl_call'.op = "is_allowed" /\ rl_call'.client = c)
          => LET ledger == OD_Get(_requests, c)
                 m == CountAfter(ledger, now - MINUTE)
                 h == CountAfter(ledger, now - HOUR)
                 d == CountAfter(ledger, now - DAY)
             IN /\ rl_call'.allowed <=> rl_call'.reason = <<>>
                /\ rl_call'.allowed <=> (m < per_minute /\ h < per_hour /\ d < per_day)
                /\ rl_call'.reason = <<per_minute, "minute">> <=> m >= per_minute
                /\ rl_call'.reason = <<per_hour, "hour">>
                      <=> (m < per_minute /\ h >= per_hour)
                /\ rl_call'.reason = <<per_day, "day">>
                      <=> (m < per_minute /\ h < per_hour /\ d >= per_day)]_vars

\* a rejection with the minute reason while all three tiers are over
C9_Witness ==
    /\ rl_call.op = "is_allowed" /\ ~ rl_call.allowed
    /\ rl_call.reason = <<per_minute, "minute">>
    /\ CountAfter(OD_Get(_requests, rl_call.client), now - HOUR) >= per_hour
    /\ CountAfter(OD_Get(_requests, rl_call.client), now - DAY) >= per_day

\* the first of a served-order history once client c is left out
Oldest(order, c) == Head(SelectSeq(order, LAMBDA x : x # c))

\* C10 (SpecLRU): after every is_allowed or record_request call at most
\* MAX_TRACKED_CLIENTS identities are tracked; an eviction removes the
\* identity least recently touched (by is_allowed or record_request, or, read
\* generously, by get_stats as well), never the identity just served, and the
\* evicted identity is left without history.
C10_LRUEviction ==
    /\ [](rl_call.op \in {"is_allowed", "record_request"}
            => Len(_requests) <= MAX_TRACKED_CLIENTS)
    /\ [][rl_call'.op \in {"is_allowed", "record_request"}
            => LET c == rl_call'.client
                   lost == OD_Keys(_requests) \ OD_Keys(_requests')
               IN lost # {}
                    => /\ c \notin lost
                       /\ c \notin OD_Keys(_requests)
                       /\ \/ lost = {Oldest(served, c)}
                          \/ lost = {Oldest(touched, c)}
                       /\ \A x \in lost : OD_Get(_requests', x) = <<>>]_vars

\* ------------------------------------------------------------------------
\* Properties of the refresher (checked under SpecRefresher and SpecRestart)
\* ------------------------------------------------------------------------
\* a credential in delegated-OAuth mode with a refresh token and an expiry
\* that has passed at t or lies within refresh_buffer of t
Due(credential, t) ==
    /\ credential.auth_type = "oauth-iflow"
    /\ credential.oauth_refresh_token # ""
    /\ credential.oauth_expires_at # NoExpiry
    /\ credential.oauth_expires_at <= t + refresh_buffer

\* C11: in one cycle, a persisted credential in delegated-OAuth mode with a
\* refresh token and an expiry within refresh_buffer of now (or passed) gets
\* a coroutine that makes exactly one exchange call, and when the exchange
\* result is saved the persisted access token is the access token of the
\* result (and still is when the cycle ends, unless another coroutine wrote
\* after it); an expiry further away than refresh_buffer gets no coroutine,
\* hence no exchange call, and the persisted credential stays as it is.
C11_RefreshCycle ==
    [][/\ \A w \in DOMAIN workers :
            /\ (workers[w].at = "load" /\ _run_loop_cycle(w, TRUE))
                  => /\ Due(settings, rnow)
                          => /\ Len(tasks') = Len(tasks) + 1
                             /\ workers'[w].at = "blocked"
                             /\ workers'[w].task = Len(tasks')
                             /\ tasks'[Len(tasks')].config = settings
                             /\ tasks'[Len(tasks')].exchanges = 0
                     /\ settings.oauth_expires_at > rnow + refresh_buffer
                          => /\ tasks' = tasks
                             /\ settings' = settings
                             /\ workers'[w].at = "wait"
            /\ (workers[w].at = "blocked" /\ _schedule_refresh_done(w))
                  => /\ tasks[workers[w].task].exchanges = 1
                     /\ ~tasks[workers[w].task].failed
                          => /\ tasks[workers[w].task].wrote
                             /\ writer = workers[w].task
                                  => settings.oauth_access_token = workers[w].task
       /\ \A i \in DOMAIN tasks :
            /\ tasks'[i].exchanges <= 1
            /\ (tasks[i].at = "exchanging" /\ tasks'[i].at # "exchanging")
                  => \A o \in Outcomes(i, rnow) :
                        (o.returned /\ o.saved /\ _refresh_token_resume(i, o))
                           => settings'.oauth_access_token = o.token_data.access_token]_vars

\* a first cycle refreshed a due credential and saved the result with a new
\* expiry; one period later a second cycle found the expiry far away and
\* made no exchange
C11_Witness ==
    \E w \in DOMAIN workers :
        /\ workers[w].at = "wait" /\ workers[w].task = 0 /\ ~workers[w].failed
        /\ workers[w].since > StartInstant
        /\ settings.oauth_expires_at > rnow + refresh_buffer
        /\ Len(tasks) = 1 /\ tasks[1].at = "done" /\ tasks[1].wrote
        /\ tasks[1].exchanges = 1 /\ ~tasks[1].failed
        /\ writer = 1 /\ settings.oauth_access_token = 1

\* C12: a cycle whose exchange call fails leaves the persisted credential
\* (access token, refresh token, expiry, auth type) as it was and does not
\* invoke the observer callback: the coroutine whose exchange raised neither
\* saves nor calls back, at the failure or in any later step, and the
\* persisted credential changes only in the step of a coroutine whose
\* exchange returned a result.
C12_FailedExchange ==
    [][/\ \A i \in DOMAIN tasks :
            /\ (tasks[i].at = "exchanging" /\ tasks'[i].at # "exchanging")
                  => \A o \in Outcomes(i, rnow) :
                        (~o.returned /\ _refresh_token_resume(i, o))
                           => /\ settings' = settings
                              /\ ~tasks'[i].wrote
                              /\ ~tasks'[i].notified
                              /\ tasks'[i].failed
            /\ (tasks[i].at \in {"closing", "done"} /\ ~tasks[i].wrote)
                  => /\ ~tasks'[i].wrote
                     /\ ~tasks'[i].notified
                     /\ writer' # i
       /\ settings' # settings
            => \E i \in DOMAIN tasks :
                  /\ tasks[i].at = "exchanging"
                  /\ tasks'[i].wrote
                  /\ tasks'[i].result # NoResult
                  /\ writer' = i]_vars

\* with a callback registered, a due cycle's exchange failed and the cycle is
\* over: the credential read at the start of the cycle is still the persisted
\* one and the callback was not invoked
C12_Witness ==
    \E w \in DOMAIN workers :
        /\ _on_refresh_callback
        /\ workers[w].at = "wait" /\ workers[w].failed /\ workers[w].task = 1
        /\ tasks[1].at = "done" /\ tasks[1].exchanges = 1 /\ ~tasks[1].abandoned
        /\ ~tasks[1].wrote /\ ~tasks[1].notified
        /\ writer = 0
        /\ settings = Credential("oauth-iflow", 0, "rt0", StartInstant + refresh_buffer)

\* C13: a worker thread ends only at the while test of _run_loop with the
\* stop event set, never because a cycle failed: every cycle, failed or not
\* (load, exchange, save, callback, close or handoff), ends in the periodic
\* wait; the wait ends when the period has passed or the event is set; and
\* the while test that finds the event clear leads into the next cycle.
C13_WorkerSurvives ==
    [][\A w \in DOMAIN workers :
          /\ (workers[w].at # "dead" /\ workers'[w].at = "dead")
                => workers[w].at = "check" /\ _stop_event
          /\ (workers[w].at \in {"load", "blocked"}
                /\ workers'[w].at \notin {"load", "blocked"})
                => workers'[w].at = "wait" /\ workers'[w].since = rnow
          /\ (workers[w].at = "blocked" /\ workers'[w].at = "wait"
                /\ tasks'[workers[w].task].failed)
                => workers'[w].failed
          /\ (workers[w].at = "wait" /\ workers'[w].at # "wait")
                => /\ workers'[w].at = "check"
                   /\ _stop_event \/ rnow >= workers[w].since + check_interval
          /\ (workers[w].at = "check" /\ workers'[w].at # "check" /\ ~_stop_event)
                => workers'[w].at = "load"]_vars

\* a running, unstopped worker whose last cycle failed has waited one period
\* and is in its next cycle
C13_Witness ==
    \E w \in DOMAIN workers :
        /\ _running /\ ~_stop_event
        /\ workers[w].at = "load" /\ workers[w].failed
        /\ rnow >= workers[w].since + check_interval

\* the worker threads that are executing _run_loop
Alive == { w \in DOMAIN workers : workers[w].at # "dead" }

\* C14: across any sequence of start() and stop() calls, a stop() whose join
\* timed out in mid-refresh followed by a start() included, at most one
\* worker thread executes the refresh loop; start() on a running refresher
\* and stop() on a stopped one change nothing.
C14_OneWorker ==
    /\ [](Cardinality(Alive) <= 1)
    /\ [][/\ (ref_call'.op = "start" /\ _running /\ ref_call' # ref_call)
               => UNCHANGED <<settings, _running, _thread, _stop_event, workers, tasks>>
          /\ (ref_call'.op = "stop" /\ ~_running /\ ref_call' # ref_call)
               => UNCHANGED <<settings, _running, _thread, _stop_event, workers, tasks>>]_vars

\* C15: refresh cycles never overlap: no coroutine starts its exchange while
\* the coroutine of an earlier cycle has an exchange that has neither
\* returned nor been abandoned by the handoff timeout.
C15_NoOverlap ==
    [][\A i \in DOMAIN tasks :
          (tasks[i].at = "pending" /\ tasks'[i].at = "exchanging")
             => \A j \in DOMAIN tasks :
                   j < i => ~(tasks[j].at \in {"pending", "exchanging"} /\ ~tasks[j].abandoned)]_vars

\* where worker w is, "none" before start() created it
WorkerAt(w) == IF w \in DOMAIN workers THEN workers[w].at ELSE "none"

\* no worker is on its way through _run_loop: each one has ended or is
\* inside _schedule_refresh
Quiet == \A w \in DOMAIN workers : WorkerAt(w) \in {"dead", "blocked"}

\* C16: once stop() was called on a running refresher (and start() not
\* again), no worker begins a new cycle: the while test leads nowhere but to
\* the end of the thread and the periodic wait nowhere but to the while
\* test; from every instant at which the refresher is stopped, an instant
\* follows at which stop() has left its join and no worker is waiting or at
\* the while test, so that a worker found in its periodic wait has left it,
\* whether or not the period has passed, and ended; stop() leaves its join
\* also when the worker is in the middle of a cycle.
C16_StopObserved ==
    /\ [][\A w \in DOMAIN workers :
             /\ (~_running /\ workers[w].at = "check" /\ workers'[w].at # "check")
                   => workers'[w].at = "dead"
             /\ (~_running /\ workers[w].at = "wait" /\ workers'[w].at # "wait")
                   => workers'[w].at = "check"]_vars
    /\ (~_running) ~> (caller = "idle" /\ _thread = 0 /\ Quiet)

\* stop() has returned and the worker, which had finished a cycle and was
\* waiting, has ended before its period passed
C16_Witness ==
    \E w \in DOMAIN workers :
        /\ ~_running /\ caller = "idle" /\ _thread = 0
        /\ workers[w].at = "dead" /\ workers[w].task = 1 /\ tasks[1].at = "done"
        /\ rnow < workers[w].since + check_interval

\* ------------------------------------------------------------------------
\* Properties of the auth manager over a failing store (SpecFault)
\* ------------------------------------------------------------------------
\* C17: when the write of the user store fails during create_user,
\* change_password, delete_user or authenticate, no error reaches the
\* caller: the call returns its normal result with the in-memory change
\* kept, and authenticate with correct credentials returns a token that
\* verify_token accepts.
C17_SaveFailureSwallowed ==
    [][(/\ ~store_writable
        /\ call' # call
        /\ call'.op \in {"create_user", "change_password", "delete_user", "authenticate"})
          => /\ call'.ret # "raise"
             /\ \A u \in Usernames, p \in Passwords :
                   (/\ call'.op = "authenticate" /\ call'.username = u
                    /\ u \in DOMAIN users
                    /\ _verify_password(p, users[u].password_hash)
                    /\ authenticate(u, p))
                      => /\ call'.ret = "token"
                         /\ call'.token \in DOMAIN active_tokens'
                         /\ active_tokens'[call'.token].username = u]_vars

\* ------------------------------------------------------------------------
\* Properties of concurrent calls on the auth manager (SpecAuthConc)
\* ------------------------------------------------------------------------
\* C18: concurrent calls behave as if serialised: once change_password(u,
\* old, new) or delete_user(u) has returned true, a token minted by an
\* authenticate call that verified the old password, or that is for the
\* deleted user, is not accepted by verify_token.
C18_AsIfSerialised ==
    [][\A h \in AuthThreads :
          (auth_pc[h] = "saved" /\ auth_pc'[h] = "idle" /\ auth_local[h].overtaken)
             => \A t \in DOMAIN issued' :
                   t = call'.token => verify_token_result(t)' = "none"]_vars

\* ------------------------------------------------------------------------
\* Properties of legacy password hashes (checked under Spec)
\* ------------------------------------------------------------------------
\* C19: for a user whose stored hash is in the legacy untagged format,
\* authenticate with the correct password returns a token and leaves a
\* tagged pbkdf2 hash that verifies that password and no other; authenticate
\* with a wrong password returns none and leaves the legacy hash as it is;
\* a successful authenticate of a user with a tagged hash leaves the hash as
\* it is.
C19_LegacyUpgrade ==
    [][\A u \in Usernames, p \in Passwords :
          (/\ call'.op = "authenticate" /\ call'.username = u
           /\ u \in DOMAIN users
           /\ authenticate(u, p))
             => IF users[u].password_hash.tag = "legacy"
                THEN IF users[u].password_hash = LegacyHash(p)
                     THEN /\ call'.ret = "token"
                          /\ users'[u].password_hash.tag = "pbkdf2"
                          /\ \A q \in Passwords :
                                _verify_password(q, users'[u].password_hash) <=> q = p
                     ELSE /\ call'.ret = "none"
                          /\ users'[u].password_hash = users[u].password_hash
                ELSE call'.ret = "token"
                        => users'[u].password_hash = users[u].password_hash]_vars

\* the user of the legacy store has authenticated twice with the right
\* password: the hash is tagged and the second login left it alone
C19_Witness ==
    /\ disk = Serialize(users)
    /\ "u1" \in DOMAIN users
    /\ users["u1"].password_hash.tag = "pbkdf2"
    /\ users["u1"].created_at = 0
    /\ PasswordOf(users["u1"].password_hash) = "p1"
    /\ call.op = "authenticate" /\ call.username = "u1" /\ call.ret = "token"
    /\ Cardinality({t \in DOMAIN issued : issued[t].username = "u1"}) = 2
    /\ _verify_password("p1", users["u1"].password_hash)
    /\ ~ _verify_password("p2", users["u1"].password_hash)

\* ------------------------------------------------------------------------
\* Properties of get_stats (checked under SpecLRU)
\* ------------------------------------------------------------------------
\* C20: get_stats(client_id) does not mutate the limiter: the tracked
\* identities, every identity's ledger and the LRU order are the same after
\* the call as before it, for identities with and without history.
C20_GetStatsPure ==
    [][rl_call'.op = "get_stats" => _requests' = _requests]_vars

\* ------------------------------------------------------------------------
\* Properties of the rate-limit middleware (checked under SpecMW)
\* ------------------------------------------------------------------------
\* no enabled configuration is installed
Bypassed == _rate_limit_config = None \/ ~_rate_limit_config[1].enabled

\* C21: while the installed configuration has enabled = false, or none is
\* installed, every request the middleware handles goes to call_next without
\* the limiter being consulted: no 429, and no ledger, LRU position or
\* limiter instance changes, whatever the ledgers of a previously enabled
\* limiter hold.
C21_DisabledBypasses ==
    [][(Bypassed /\ mw_call'.n # mw_call.n)
          => /\ mw_call'.response = "call_next"
             /\ ~mw_call'.checked
             /\ _requests' = _requests
             /\ _rate_limiter' = _rate_limiter]_vars

\* a request was forwarded unchecked under a disabled configuration although
\* the ledger an enabled limiter had filled would have rejected its identity
C21_Witness ==
    /\ _rate_limit_config # None /\ ~_rate_limit_config[1].enabled
    /\ mw_call.response = "call_next" /\ ~mw_call.checked
    /\ RejectedTier(SelectSeq(OD_Get(_requests, mw_call.client),
                              LAMBDA x : x > now - DAY), now) # "none"

HandoffBlocked ==
    { w \in DOMAIN workers :
        workers[w].at = "blocked" /\ tasks[workers[w].task].mode = "handoff" }

\* C23: a cycle that refreshes creates one coroutine and gives it to one
\* context, the main loop when start() captured one that is running, else a
\* private asyncio.run, and the coroutine stays there; a worker leaves
\* _schedule_refresh for its periodic wait, with the coroutine over or, on
\* the main loop only, after the handoff timeout with the cycle counted as
\* failed; and a worker waiting for the main loop always gets out, whether or
\* not the loop ever runs the coroutine.
C23_OneContextBoundedWait ==
    /\ [][/\ Len(tasks') \in {Len(tasks), Len(tasks) + 1}
          /\ \A i \in DOMAIN tasks : tasks'[i].mode = tasks[i].mode
          /\ Len(tasks') = Len(tasks) + 1
                => /\ tasks'[Len(tasks')].mode
                         = IF _loop_running THEN "handoff" ELSE "private"
                   /\ \E w \in DOMAIN workers :
                         /\ workers[w].at = "load"
                         /\ workers'[w].at = "blocked"
                         /\ workers'[w].task = Len(tasks')
          /\ \A w \in DOMAIN workers :
                (workers[w].at = "blocked" /\ workers'[w].at # "blocked")
                   => /\ workers'[w].at = "wait"
                      /\ tasks[workers[w].task].at # "done"
                            => /\ tasks[workers[w].task].mode = "handoff"
                               /\ workers'[w].failed
                               /\ tasks'[workers[w].task].abandoned]_vars
    /\ (HandoffBlocked # {}) ~> (HandoffBlocked = {})

\* the worker gave up a coroutine that the main loop has not finished and is
\* in its periodic wait with the cycle counted as failed
C23_Witness ==
    \E w \in DOMAIN workers :
        /\ _loop_running
        /\ workers[w].at = "wait" /\ workers[w].failed /\ workers[w].task = 1
        /\ tasks[1].mode = "handoff" /\ tasks[1].abandoned
        /\ tasks[1].at \in {"pending", "exchanging"}

\* ------------------------------------------------------------------------
\* Properties of should_refresh_now (checked under SpecDiag)
\* ------------------------------------------------------------------------
\* C24: a call of should_refresh_now changes neither the persisted
\* credential nor the refresher (flags, threads, coroutines); it returns
\* true exactly when the credential can be loaded and passes the test of the
\* worker's cycle, in which case the cycle's coroutine would make the
\* exchange call; so it returns false for an unreadable credential, and the
\* result is a function of the credential and the instant alone, whether or
\* not a worker runs.
C24_ShouldRefreshNow ==
    [][(ref_call'.op = "should_refresh_now" /\ ref_call' # ref_call)
          => /\ UNCHANGED <<settings, writer, rnow, _running, _thread, _stop_event,
                            _loop_running, _on_refresh_callback, caller, workers,
                            tasks>>
             /\ (ref_call'.effect = "true")
                   <=> (ref_call'.readable /\ ShouldRefresh(settings, rnow))
             /\ ref_call'.effect = "true" => settings.oauth_refresh_token # ""
             /\ ref_call'.effect \in {"true", "false"}]_vars

\* should_refresh_now returned true on a stopped refresher whose worker has
\* ended, for a credential that was not due when the refresher was built
\* and is due one period later
C24_Witness ==
    /\ ref_call.op = "should_refresh_now" /\ ref_call.effect = "true"
    /\ ~_running /\ workers # <<>> /\ workers[1].at = "dead"
    /\ settings.oauth_expires_at = StartInstant + refresh_buffer + 1
    /\ Due(settings, rnow)
    /\ rnow > StartInstant

\* ------------------------------------------------------------------------
\* Properties of the password hash (checked under SpecHash)
\* ------------------------------------------------------------------------
\* C25: a string produced by _hash_password(p), whatever salt was drawn,
\* verifies p and no other password; a string with the pbkdf2 prefix that is
\* malformed (a field missing or too many, a salt or digest that is no hex
\* text) verifies no password; and _verify_password returns, it never raises.
C25_HashRoundTrip ==
    hp.op = "_verify_password"
       => /\ hp.result \in {"true", "false"}
          /\ hp.damage = "none" => (hp.result = "true" <=> hp.tried = hp.origin)
          /\ hp.damage # "none" => hp.result = "false"

\* the password that was hashed has been tried against a string whose digest
\* field had been replaced by a text that is no hex, and was turned down
C25_Witness ==
    /\ hp.op = "_verify_password"
    /\ hp.damage = "digest_not_hex"
    /\ hp.tried = hp.origin
    /\ hp.result = "false"

\* ------------------------------------------------------------------------
\* More properties of the auth manager (checked under Spec)
\* ------------------------------------------------------------------------
\* C26: a verify_token(t) that returns none leaves t out of the token map (an
\* expired t is deleted by that call); a token that a caller can present
\* (one authenticate returned, or a string made up) and that is out of the
\* map never enters it again, whatever call follows, authenticate included,
\* since authenticate mints a string never seen before; and verify_token
\* returns a username only for a token in the map. Hence after one none for
\* t every later verify_token(t) returns none.
C26_NoneIsTerminal ==
    [][/\ (call'.op = "verify_token" /\ call' # call /\ call'.ret = "none")
            => call'.token \notin DOMAIN active_tokens'
       /\ (call'.op = "verify_token" /\ call' # call /\ call'.ret # "none")
            => /\ call'.token \in DOMAIN active_tokens
               /\ call'.token \in DOMAIN active_tokens'
       /\ \A t \in TokenInputs :
             t \notin DOMAIN active_tokens => t \notin DOMAIN active_tokens']_vars

\* verify_token has just returned none for a token that was logged out before
\* its expiry, while a token minted for the same user is in the map
C26_Witness ==
    \E t \in DOMAIN issued, t2 \in DOMAIN active_tokens :
        /\ call.op = "verify_token" /\ call.token = t /\ call.ret = "none"
        /\ t \in revoked /\ clock <= issued[t].exp
        /\ t2 # t /\ active_tokens[t2].username = issued[t].username
        /\ issued[t2].iat >= issued[t].iat

\* C27: a verify_token call that returns a username changes nothing in the
\* token map: the verified token keeps the issuance and expiry instants
\* authenticate gave it, the expiry being TOKEN_LIFETIME_HOURS after the
\* issuance, and every other entry stays; so a username is returned at most
\* 24 hours after the token was issued, however often it was verified.
C27_FixedLifetime ==
    /\ [][(call'.op = "verify_token" /\ call' # call /\ call'.ret # "none")
             => /\ active_tokens' = active_tokens
                /\ active_tokens'[call'.token] = issued[call'.token]
                /\ clock <= issued[call'.token].iat + TOKEN_LIFETIME_HOURS]_vars
    /\ [](\A t \in DOMAIN active_tokens :
             /\ active_tokens[t] = issued[t]
             /\ active_tokens[t].exp = active_tokens[t].iat + TOKEN_LIFETIME_HOURS)

\* a token verified at its issuance instant is verified again 24 hours later,
\* with the expiry it was issued with, and is still in the map
C27_Witness ==
    \E t \in DOMAIN active_tokens :
        /\ call.op = "verify_token" /\ call.token = t
        /\ call.ret = active_tokens[t].username
        /\ clock = active_tokens[t].iat + TOKEN_LIFETIME_HOURS
        /\ active_tokens[t].exp = clock
        /\ clock > 0

\* ------------------------------------------------------------------------
\* More properties of the rate limiter (checked under SpecRL and SpecLRU)
\* ------------------------------------------------------------------------
\* the timestamps of a ledger that _get_requests keeps at instant t
Pruned(requests, t) == SelectSeq(requests, LAMBDA x : x > t - DAY)

\* C28: an is_allowed call that rejects leaves in the identity's ledger
\* exactly the timestamps it held before that are not older than 24 h and
\* appends nothing; so at the instant of the call and at every later instant
\* the three checks decide on the ledger as they would have without the
\* rejected call.
C28_RejectionRecordsNothing ==
    [][(rl_call'.op = "is_allowed" /\ ~rl_call'.allowed /\ now' = now)
          => LET c == rl_call'.client
                 before == OD_Get(_requests, c)
                 after == OD_Get(_requests', c)
             IN /\ after = Pruned(before, now)
                /\ \A t \in Instants :
                      t >= now =>
                         RejectedTier(Pruned(after, t), t)
                            = RejectedTier(Pruned(before, t), t)]_vars

\* a call was rejected on the hour tier, later than the last admission, and
\* the ledger holds the admitted requests only
C28_Witness ==
    /\ rl_call.op = "is_allowed" /\ ~rl_call.allowed /\ rl_call.client = "a"
    /\ rl_call.reason = Reason("hour")
    /\ pure["a"] /\ OD_Get(_requests, "a") = admitted["a"]
    /\ Len(admitted["a"]) = per_hour
    /\ now > admitted["a"][per_hour]

\* C29 (SpecLRU): after every is_allowed call that admits identity c, c is
\* the last entry of the OrderedDict, the most recently used one, also when
\* c was tracked with an empty ledger before the call.
C29_AdmittedIsMRU ==
    [][(rl_call'.op = "is_allowed" /\ rl_call'.allowed)
          => /\ _requests' # <<>>
             /\ _requests'[Len(_requests')].client = rl_call'.client]_vars

\* C30 (SpecRL): after an is_allowed, record_request or get_stats call on an
\* identity at instant now, the identity's ledger holds no timestamp older
\* than now - 24 h, so that its length is the number of requests of the
\* trailing 24 h.
C30_LedgerWithinDay ==
    rl_call.op \in {"is_allowed", "record_request", "get_stats"}
       => LET requests == OD_Get(_requests, rl_call.client)
          IN /\ \A i \in 1..Len(requests) : requests[i] >= now - DAY
             /\ Len(requests) = CountAfter(requests, now - DAY - 1)

\* ------------------------------------------------------------------------
\* Properties of the refresher's cycle (checked under SpecRefresher)
\* ------------------------------------------------------------------------
\* a credential the refresher acts on: delegated-OAuth mode, a refresh token
\* and an expiry
Eligible(credential) ==
    /\ credential.auth_type = "oauth-iflow"
    /\ credential.oauth_refresh_token # ""
    /\ credential.oauth_expires_at # NoExpiry

\* C31: a worker creates a refresh coroutine, and the coroutine makes its
\* exchange call, only for a credential read in that cycle that is in
\* delegated-OAuth mode and has a refresh token and an expiry; while the
\* persisted credential has another auth type, or no refresh token, or no
\* expiry, no step creates a coroutine, makes an exchange call or writes the
\* credential, however long ago the expiry passed.
C31_OnlyEligibleRefreshed ==
    [][/\ Len(tasks') > Len(tasks)
            => /\ Eligible(settings)
               /\ tasks'[Len(tasks')].config = settings
       /\ \A i \in DOMAIN tasks :
            tasks'[i].exchanges > tasks[i].exchanges => Eligible(tasks[i].config)
       /\ ~Eligible(settings)
            => /\ tasks' = tasks
               /\ tasks = <<>>
               /\ settings' = settings
               /\ writer' = 0]_vars

\* a credential of another auth type whose expiry passed more than a period
\* ago: the worker has run a cycle one period after the start, without a
\* coroutine and without a write
C31_Witness ==
    \E w \in DOMAIN workers :
        /\ settings.auth_type = "api-key"
        /\ settings.oauth_refresh_token # ""
        /\ settings.oauth_expires_at + check_interval <= rnow + refresh_buffer
        /\ workers[w].at = "wait" /\ workers[w].since > StartInstant
        /\ ~workers[w].failed
        /\ tasks = <<>> /\ writer = 0

\* the coroutines that persist the credential in this step
Writers == { i \in DOMAIN tasks : ~tasks[i].wrote /\ tasks'[i].wrote }

\* C32: the step in which a coroutine persists the credential stores the
\* credential its cycle read with the access token replaced by the one of
\* the exchange result, the refresh token and the expiry replaced exactly
\* when the result carries one and otherwise as read, and the auth type and
\* the other settings as read; when nothing was persisted between the
\* cycle's read and its write, these are the values stored before the write.
\* The persisted credential changes in no other step.
C32_RefreshFrame ==
    [][/\ \A i \in Writers :
            LET read == tasks[i].config
                token_data == tasks'[i].result
            IN /\ token_data # NoResult
               /\ settings'.oauth_access_token = token_data.access_token
               /\ settings'.oauth_refresh_token =
                     IF token_data.refresh_token # "" THEN token_data.refresh_token
                     ELSE read.oauth_refresh_token
               /\ settings'.oauth_expires_at =
                     IF token_data.expires_at # NoExpiry THEN token_data.expires_at
                     ELSE read.oauth_expires_at
               /\ settings'.auth_type = read.auth_type
               /\ settings'.model_name = read.model_name
               /\ writer = 0
                    => /\ read = settings
                       /\ settings'.auth_type = settings.auth_type
                       /\ settings'.model_name = settings.model_name
                       /\ token_data.refresh_token = ""
                            => settings'.oauth_refresh_token = settings.oauth_refresh_token
                       /\ token_data.expires_at = NoExpiry
                            => settings'.oauth_expires_at = settings.oauth_expires_at
       /\ settings' # settings => Writers # {}]_vars

\* a refresh was persisted whose exchange result carried an access token
\* only: the access token is new, the refresh token and the expiry are the
\* ones the credential had at login
C32_Witness ==
    /\ writer = 1 /\ tasks[1].wrote /\ tasks[1].at = "done" /\ ~tasks[1].failed
    /\ settings = Credential("oauth-iflow", 1, "rt0", StartInstant + refresh_buffer)
    /\ settings.model_name = "m0"

\* C33: a coroutine invokes the observer callback only in the step that
\* follows the return of its exchange, at most once (a coroutine that has
\* invoked it never does again, and a cycle has one coroutine), only when a
\* callback is registered and the credential was persisted in that step
\* before the call, and with the token_data the exchange returned; a
\* coroutine whose exchange or whose save raised never invokes it; and when
\* the callback raises, the credential persisted before the call stays
\* persisted through the rest of the coroutine.
C33_CallbackAfterPersist ==
    [][/\ \A i \in DOMAIN tasks :
            /\ (~tasks[i].notified /\ tasks'[i].notified)
                  => /\ tasks[i].at = "exchanging" /\ tasks'[i].at = "closing"
                     /\ _on_refresh_callback
                     /\ ~tasks[i].wrote /\ tasks'[i].wrote
                     /\ writer' = i
                     /\ tasks'[i].told = tasks'[i].result
                     /\ tasks'[i].told # NoResult
                     /\ settings' = tasks'[i].config
                     /\ \E o \in Outcomes(i, rnow) :
                           /\ o.returned /\ o.saved
                           /\ o.token_data = tasks'[i].told
                           /\ _refresh_token_resume(i, o)
            /\ tasks[i].notified
                  => /\ tasks'[i].notified
                     /\ tasks[i].at \in {"closing", "done"}
                     /\ tasks'[i].at \in {"closing", "done"}
                     /\ tasks'[i].told \in {tasks[i].told, NoResult}
            /\ (tasks[i].at = "exchanging" /\ tasks'[i].at # "exchanging")
                  => \A o \in Outcomes(i, rnow) :
                        _refresh_token_resume(i, o)
                           => /\ (~o.returned \/ ~o.saved)
                                    => ~tasks'[i].notified /\ settings' = settings
                              /\ (o.returned /\ o.saved /\ _on_refresh_callback
                                    /\ ~o.callback_returned)
                                    => /\ tasks'[i].failed
                                       /\ settings' = UpdateConfig(tasks[i].config, o.token_data)
            /\ (tasks[i].at = "closing" /\ tasks'[i].at = "done")
                  => settings' = settings
            /\ (tasks[i].at \in {"closing", "done"} /\ ~tasks[i].notified)
                  => ~tasks'[i].notified
       /\ \A w \in DOMAIN workers :
            (workers[w].task # 0 /\ workers'[w].task # workers[w].task)
               => workers'[w].task \in {0} \cup ((DOMAIN tasks') \ DOMAIN tasks)]_vars

\* the callback raised after the credential was persisted: the cycle is over
\* and counted as failed, and the persisted credential is the refreshed one
C33_Witness ==
    \E w \in DOMAIN workers :
        /\ _on_refresh_callback
        /\ workers[w].at = "wait" /\ workers[w].task = 1 /\ workers[w].failed
        /\ tasks[1].at = "done" /\ tasks[1].wrote /\ tasks[1].notified /\ tasks[1].failed
        /\ writer = 1
        /\ settings.oauth_access_token = 1
        /\ settings.oauth_refresh_token = "rt1"

\* ------------------------------------------------------------------------
\* Failed logins (checked under Spec)
\* ------------------------------------------------------------------------
\* C34: authenticate with an unknown username and authenticate with a known
\* username and a password that does not verify both return none with no
\* token, and both leave the user map (stored hash, last login, creation
\* time), the active tokens, the persisted store, the secret and the supply
\* of tokens exactly as they were: the manager after either failure is the
\* manager before the call, so nothing it does later depends on which
\* failure it was.
C34_FailuresAlike ==
    [][\A u \in Usernames, p \in Passwords :
          (/\ call'.op = "authenticate" /\ call'.username = u
           /\ \/ u \notin DOMAIN users
              \/ ~ _verify_password(p, users[u].password_hash)
           /\ authenticate(u, p))
             => /\ call' = Call("authenticate", u, "", NoToken, "none")
                /\ users' = users
                /\ active_tokens' = active_tokens
                /\ disk' = disk
                /\ jwt_secret' = jwt_secret
                /\ nrand' = nrand
                /\ issued' = issued]_vars

\* a known user with a token in hand was refused for a wrong password: the
\* last login is still the one of the successful login, one period before,
\* and the store on disk is the user map
C34_Witness ==
    /\ call = Call("authenticate", "u1", "", NoToken, "none")
    /\ "u1" \in DOMAIN users
    /\ "u2" \notin DOMAIN users
    /\ clock > 0
    /\ users["u1"].last_login = Some(0)
    /\ \E t \in DOMAIN active_tokens : active_tokens[t].username = "u1"
    /\ disk = Serialize(users)

\* ------------------------------------------------------------------------
\* Concurrent create_user (checked under SpecCreateConc)
\* ------------------------------------------------------------------------
\* C35: of two create_user calls for the same username, absent when they
\* began, at most one returns true, and the stored record is the one built
\* by the call that returned true.
C35_OneCreatorWins ==
    \A t1 \in AuthThreads, t2 \in AuthThreads :
        (/\ t1 # t2
         /\ creators[t1].username = creators[t2].username
         /\ creators[t1].at = "true"
         /\ creators[t2].at \in {"true", "false"})
           => /\ creators[t2].at = "false"
              /\ Some(users[creators[t1].username]) = creators[t1].user

\* ------------------------------------------------------------------------
\* Concurrent verify_token (checked under SpecVerifyConc)
\* ------------------------------------------------------------------------
\* C36: a verify_token call never raises: whatever logout, change_password,
\* delete_user or another verify_token does to the token while the call
\* runs, the call returns a username or none.
C36_VerifyNeverFails ==
    /\ \A t \in AuthThreads : verifiers[t].at # "raise"
    /\ call.op = "verify_token" => call.ret \in Usernames \cup {"none"}

\* ------------------------------------------------------------------------
\* Loading the user store (checked under SpecLoad)
\* ------------------------------------------------------------------------
\* a store file whose load fails: it cannot be read, or one of its records
\* cannot be parsed
LoadFails(file) ==
    /\ file.exists
    /\ \/ ~file.readable
       \/ \E i \in DOMAIN file.records : ~Parses(file.records[i])

\* C37: right after construction over a user store whose load failed
\* (unreadable, or with a record that cannot be parsed, after others were
\* read or not), the user map is empty and has_users() is false.
C37_FailedLoadStartsEmpty ==
    (call.op = "init" /\ LoadFails(disk))
       => /\ users = EmptyMap
          /\ ~has_users

\* ------------------------------------------------------------------------
\* Abandoned refreshes and other writers (checked under SpecRefresher and
\* SpecShared)
\* ------------------------------------------------------------------------
\* C38: a coroutine whose worker gave up waiting (the handoff timed out)
\* does nothing afterwards: it does not persist the credential and does not
\* invoke the callback, whenever its exchange completes.
C38_AbandonedHasNoEffect ==
    [][\A i \in DOMAIN tasks :
          tasks[i].abandoned
             => /\ tasks'[i].wrote = tasks[i].wrote
                /\ tasks'[i].notified = tasks[i].notified
                /\ settings' # settings => writer' # i]_vars

\* C39: when a coroutine persists the credential, every field that another
\* writer changed since the cycle read it (auth type, refresh token, another
\* setting) and that the exchange result does not supply keeps the other
\* writer's value.
C39_OtherWriterKept ==
    [][\A i \in Writers :
          \A field \in DOMAIN OtherValues :
             (/\ settings[field] # tasks[i].config[field]
              /\ settings[field] = OtherValues[field]
              /\ field = "oauth_refresh_token" => tasks'[i].result.refresh_token = "")
                => settings'[field] = settings[field]]_vars

\* ------------------------------------------------------------------------
\* Exchange answers without an access token (checked under SpecMalformed)
\* ------------------------------------------------------------------------
\* C40: no coroutine persists a credential whose access token is empty; when
\* the exchange result carries no access token, the persisted access token
\* is after the write what it was before.
C40_AccessTokenNeverEmpty ==
    [][\A i \in Writers :
          /\ settings'.oauth_access_token # EmptyAccessToken
          /\ "access_token" \notin DOMAIN tasks'[i].result
                => settings'.oauth_access_token = settings.oauth_access_token]_vars

====
